---- MODULE Spec2Model ----
(***************************************************************************)
(* Retrieval-and-escalation pipeline of RAG_Bot: ingestion of a text into  *)
(* the Chroma collection "knowledge_base" (chains/rag_service.py,          *)
(* chains/chroma_utils.py), similarity search with a distance threshold,   *)
(* the escalation of unanswered questions into tickets (db.py,             *)
(* handlers/chat_handlers.py), and the clearing of the collection          *)
(* (handlers/admin_handlers.py).                                           *)
(*                                                                         *)
(* Scale of the model.  A text is a sequence of non-whitespace characters, *)
(* so RecursiveCharacterTextSplitter always descends to its last separator *)
(* "" and merges single characters.  chunk_size / chunk_overlap (500 / 70  *)
(* in the source) are scaled to 2 / 1.  Distances and thresholds are in    *)
(* tenths (13 is the source's 1.3); the distance is Chroma's default       *)
(* squared L2.  An embedding model is a deterministic map from a text to a *)
(* vector of the model's dimension.                                        *)
(***************************************************************************)
EXTENDS Integers, Sequences, FiniteSets, TLC

VARIABLES
    collection,   \* Chroma collection: chunk number i (id "chunk_i") -> entry
    dimension,    \* dimension the collection was established with, 0 if none
    users,        \* rows of table users (telegram ids)
    tickets,      \* rows of table tickets, in creation order
    questions,    \* rows of table questions, in creation order
    last,         \* the request handled last: its inputs and what it reported
    calls,        \* per process: the call in flight and what it has computed
    shared_dir,   \* CHROMA_PERSIST_DIR is the directory the admin handlers open
    chat_mentions,\* chat id -> times of the mentions recorded for the chat
    chat_timeout, \* chat id -> time until which the bot is silent in the chat
    now,          \* time.time(), in units of 60 seconds
    passed_at,    \* history: chat id -> times of the mentions passed to
                  \* handle_mention less than 60 seconds ago
    fsm,          \* FSM storage: session (chat, user) -> state and data
    inactive,     \* ids of the tickets with active = False
    closed_by_user, \* ids of the tickets with closed_by_user = True
    answers,      \* table answers
    migrations    \* migration files, committed SQL, table migrations

vars == <<collection, dimension, users, tickets, questions, last, calls,
          shared_dir, chat_mentions, chat_timeout, now, passed_at,
          fsm, inactive, closed_by_user, answers, migrations>>

\* the mention limiter of the chat handlers
limiter == <<chat_mentions, chat_timeout, now, passed_at>>

\* the help desk: sessions of the bot, status of the tickets, answers
desk == <<fsm, inactive, closed_by_user, answers>>

----------------------------------------------------------------------------
(* Bounds of the model *)

MaxTextLen == 3      \* longest text handed to the ingestion entrypoint
MaxTickets == 1      \* tickets the database may hold
MaxChunkSize == 3    \* largest chunk_size and chunk_overlap handed to the chunker
MaxPromptLen == 2    \* longest query and document text handed to the prompt
MaxRows == 2         \* ticket rows when add_question is called on its own

Chars == {"a", "b"}
Texts == UNION {[1..n -> Chars] : n \in 0..MaxTextLen}
QueryTexts == {<<>>, <<"a">>}
UserIds == {"u1"}
None == "None"

(* Program constants *)
chunk_size == 2          \* split_text_into_chunks default (scaled)
chunk_overlap == 1       \* split_text_into_chunks default (scaled)
default_k == 3           \* search_similar_docs k=3
default_threshold == 13  \* search_similar_docs threshold=1.3, in tenths

DefaultModel == "distiluse-base-multilingual-cased-v1"
Models == {DefaultModel, "other-model"}
Thresholds == {0, default_threshold, 20}

----------------------------------------------------------------------------
(* Sequence helpers *)

RECURSIVE SumSeq(_)
SumSeq(s) == IF s = <<>> THEN 0 ELSE Head(s) + SumSeq(Tail(s))

Count(text, c) == Cardinality({i \in DOMAIN text : text[i] = c})

----------------------------------------------------------------------------
(* Chunker: RecursiveCharacterTextSplitter(chunk_size, chunk_overlap)      *)

\* the "keep on popping" loop of _merge_splits, every split being one
\* character and the separator being ""
RECURSIVE PopOverlap(_, _, _)
PopOverlap(cur, cs, ov) ==
    IF Len(cur) > ov \/ (Len(cur) + 1 > cs /\ Len(cur) > 0)
    THEN PopOverlap(Tail(cur), cs, ov)
    ELSE cur

\* _merge_splits over the characters text[i..]; docs are the chunks emitted
\* so far and cur the characters of the chunk being built
RECURSIVE MergeSplits(_, _, _, _, _, _)
MergeSplits(text, i, docs, cur, cs, ov) ==
    IF i > Len(text)
    THEN IF cur = <<>> THEN docs ELSE Append(docs, cur)
    ELSE IF Len(cur) + 1 > cs /\ Len(cur) > 0
         THEN MergeSplits(text, i + 1, Append(docs, cur),
                          Append(PopOverlap(cur, cs, ov), text[i]), cs, ov)
         ELSE MergeSplits(text, i + 1, docs, Append(cur, text[i]), cs, ov)

\* splitter.split_text(text): a character is a "good split" when its length
\* is below chunk_size, otherwise it is a chunk of its own
split_text(text, cs, ov) ==
    IF 1 < cs
    THEN MergeSplits(text, 1, <<>>, <<>>, cs, ov)
    ELSE [i \in 1..Len(text) |-> <<text[i]>>]

\* RecursiveCharacterTextSplitter(chunk_size, chunk_overlap): the constructor
\* raises ValueError when chunk_overlap is larger than chunk_size
SplitterRaises(cs, ov) == ov > cs

\* [{"id": f"chunk_{i + 1}", "text": chunk} for i, chunk in enumerate(chunks)]
split_text_into_chunks(text, cs, ov) ==
    LET chunks == split_text(text, cs, ov)
    IN  [i \in 1..Len(chunks) |-> [id |-> i, text |-> chunks[i]]]

----------------------------------------------------------------------------
(* Embedding model and distance *)

\* model.encode of one text; the default model has dimension 2, the other 3
Encode(model, text) ==
    IF model = DefaultModel
    THEN <<Count(text, "a"), Count(text, "b")>>
    ELSE <<Count(text, "b"), Count(text, "a"), Len(text)>>

\* squared L2 distance of two vectors of equal dimension, in tenths
Distance(u, v) ==
    10 * SumSeq([i \in DOMAIN u |-> (u[i] - v[i]) * (u[i] - v[i])])

----------------------------------------------------------------------------
(* Vector index (Chroma collection) *)

EmptyCollection == [i \in {} |-> None]

Min(a, b) == IF a < b THEN a ELSE b

\* an upsert that does not compare the dimension of the embeddings with the
\* dimension the collection was established with
UpsertRaisesAnyDimension(dim, ids, embeddings, storageOk) ==
    \/ ~storageOk
    \/ Len(ids) = 0
    \/ \E i \in DOMAIN embeddings : Len(embeddings[i]) # Len(embeddings[1])

\* knowledge_base.upsert(ids, documents, embeddings): overwrite by id; the
\* call raises, writing nothing, when the storage is unavailable, when ids
\* is empty, or when an embedding has not the established dimension
UpsertRaises(dim, ids, embeddings, storageOk) ==
    \/ ~storageOk
    \/ Len(ids) = 0
    \/ \E i \in DOMAIN embeddings :
          \/ Len(embeddings[i]) # Len(embeddings[1])
          \/ dim # 0 /\ Len(embeddings[i]) # dim

\* collection.add under fresh ids: the entries are appended after the
\* existing ones instead of overwriting them
UpsertAppend(coll, ids, documents, embeddings) ==
    LET n == Cardinality(DOMAIN coll)
    IN  [id \in DOMAIN coll \cup {n + i : i \in DOMAIN ids} |->
            IF id \in DOMAIN coll
            THEN coll[id]
            ELSE [text |-> documents[id - n], embedding |-> embeddings[id - n]]]

\* an upsert that leaves the entry of an id that is already stored
UpsertKeepExisting(coll, ids, documents, embeddings) ==
    [id \in DOMAIN coll \cup {ids[i] : i \in DOMAIN ids} |->
        IF id \in DOMAIN coll
        THEN coll[id]
        ELSE LET i == CHOOSE j \in DOMAIN ids : ids[j] = id
             IN  [text |-> documents[i], embedding |-> embeddings[i]]]

\* an upsert that replaces the content of the collection by the batch
UpsertReplaceAll(coll, ids, documents, embeddings) ==
    [id \in {ids[i] : i \in DOMAIN ids} |->
        LET i == CHOOSE j \in DOMAIN ids : ids[j] = id
        IN  [text |-> documents[i], embedding |-> embeddings[i]]]

Upsert(coll, ids, documents, embeddings) ==
    LET new == {ids[i] : i \in DOMAIN ids}
        pos(id) == CHOOSE i \in DOMAIN ids :
                      ids[i] = id /\ \A j \in DOMAIN ids : ids[j] = id => j <= i
    IN  [id \in DOMAIN coll \cup new |->
            IF id \in new
            THEN [text |-> documents[pos(id)], embedding |-> embeddings[pos(id)]]
            ELSE coll[id]]

\* a delete that removes one of the ids only
DeleteOne(coll, ids) ==
    IF ids \cap DOMAIN coll = {} THEN coll
    ELSE [id \in DOMAIN coll \ {CHOOSE x \in ids \cap DOMAIN coll : TRUE} |-> coll[id]]

\* a delete that removes the documents of the ids and leaves their vectors
DeleteDocumentsOnly(coll, ids) ==
    [id \in DOMAIN coll |->
        IF id \in ids THEN [text |-> <<>>, embedding |-> coll[id].embedding]
        ELSE coll[id]]

\* knowledge_base.delete(ids=all_ids): the entries of the ids are removed,
\* text and vector together; an id without entry is passed over
Delete(coll, ids) == [id \in DOMAIN coll \ ids |-> coll[id]]

\* knowledge_base.query(query_texts=[q], n_results=k): every answer the
\* index may give: the ids of the min(k, size) nearest entries, closest
\* first, entries at equal distance in any order
QueryResults(coll, qvec, k) ==
    LET n == Min(k, Cardinality(DOMAIN coll))
        d(id) == Distance(qvec, coll[id].embedding)
    IN  {s \in [1..n -> DOMAIN coll] :
            /\ \A i, j \in 1..n : i < j => s[i] # s[j] /\ d(s[i]) <= d(s[j])
            /\ \A id \in DOMAIN coll :
                  (\A i \in 1..n : s[i] # id) => \A i \in 1..n : d(s[i]) <= d(id)}

\* the query raises when the storage is unavailable or when the query
\* embedding has not the dimension of the collection
QueryRaises(dim, qvec, storageOk) ==
    ~storageOk \/ (dim # 0 /\ Len(qvec) # dim)

----------------------------------------------------------------------------
(* Ingestion: add_documents_to_chroma *)

EncodeOutcomes == {"ok", "raise", "invalid"}

\* Embeddings computed from the documents in reverse order
EmbeddingsReversed(model, documents, enc) ==
    [i \in DOMAIN documents |->
        IF enc = "invalid" /\ i = 1 THEN <<>>
        ELSE Encode(model, documents[Len(documents) + 1 - i])]

\* embeddings = [embedding.tolist() for embedding in model.encode(documents)];
\* with "invalid" the model yields an empty embedding for the first document
Embeddings(model, documents, enc) ==
    [i \in DOMAIN documents |->
        IF enc = "invalid" /\ i = 1 THEN <<>> ELSE Encode(model, documents[i])]

\* all(isinstance(embed, list) and len(embed) > 0 for embed in embeddings)
AllValid(embeddings) == \A i \in DOMAIN embeddings : Len(embeddings[i]) > 0

\* add_documents_to_chroma upserting the chunks whose embedding is valid
\* when some embedding is invalid
add_documents_to_chroma_partial(coll, dim, chunks, model, enc, storageOk) ==
    LET documents  == [i \in DOMAIN chunks |-> chunks[i].text]
        ids        == [i \in DOMAIN chunks |-> chunks[i].id]
        embeddings == Embeddings(model, documents, enc)
        valid      == {i \in DOMAIN chunks : Len(embeddings[i]) > 0}
    IN  IF enc = "raise"
        THEN [coll |-> coll, dim |-> dim, upserted |-> FALSE,
              ids |-> <<>>, logged |-> "embedding_error"]
        ELSE IF UpsertRaises(dim, ids, embeddings, storageOk) /\ AllValid(embeddings)
        THEN [coll |-> coll, dim |-> dim, upserted |-> FALSE,
              ids |-> <<>>, logged |-> "upsert_error"]
        ELSE [coll |-> [id \in DOMAIN coll \cup {ids[i] : i \in valid} |->
                          IF \E i \in valid : ids[i] = id
                          THEN LET i == CHOOSE j \in valid : ids[j] = id
                               IN  [text |-> documents[i], embedding |-> embeddings[i]]
                          ELSE coll[id]],
              dim |-> IF AllValid(embeddings) THEN Len(embeddings[1]) ELSE dim,
              upserted |-> AllValid(embeddings), ids |-> ids,
              logged |-> IF AllValid(embeddings) THEN "added"
                         ELSE "invalid_embeddings"]

\* The function returns None on every path; upserted tells whether the
\* upsert was performed, ids the ids it wrote, logged what the function
\* logged last.
add_documents_to_chroma(coll, dim, chunks, model, enc, storageOk) ==
    LET documents  == [i \in DOMAIN chunks |-> chunks[i].text]
        ids        == [i \in DOMAIN chunks |-> chunks[i].id]
        embeddings == Embeddings(model, documents, enc)
    IN  IF enc = "raise"
        THEN [coll |-> coll, dim |-> dim, upserted |-> FALSE,
              ids |-> <<>>, logged |-> "embedding_error"]
        ELSE IF ~AllValid(embeddings)
        THEN [coll |-> coll, dim |-> dim, upserted |-> FALSE,
              ids |-> <<>>, logged |-> "invalid_embeddings"]
        ELSE IF UpsertRaises(dim, ids, embeddings, storageOk)
        THEN [coll |-> coll, dim |-> dim, upserted |-> FALSE,
              ids |-> <<>>, logged |-> "upsert_error"]
        ELSE [coll |-> Upsert(coll, ids, documents, embeddings),
              dim |-> Len(embeddings[1]), upserted |-> TRUE,
              ids |-> ids, logged |-> "added"]

----------------------------------------------------------------------------
(* Clearing: clear_chroma_collection *)

ClearOutcomes == {"ok", "client_raises", "get_raises", "delete_raises"}

\* clear_chroma_collection(knowledge_base): read all ids, delete them when
\* there are any; every exception is logged and none leaves the function.
\* outcome tells which of the two calls raises, if any.
clear_chroma_collection(coll, outcome) ==
    LET all_ids == DOMAIN coll
    IN  IF outcome = "get_raises"
        THEN [coll |-> coll, all_ids |-> {}, logged |-> "clear_error"]
        ELSE IF all_ids = {}
        THEN [coll |-> coll, all_ids |-> all_ids, logged |-> "already_empty"]
        ELSE IF outcome = "delete_raises"
        THEN [coll |-> coll, all_ids |-> all_ids, logged |-> "clear_error"]
        ELSE [coll |-> Delete(coll, all_ids), all_ids |-> all_ids,
              logged |-> "deleted"]

----------------------------------------------------------------------------
(* Ticket storage: db.add_question *)

AddOutcomes == {"ok", "fail_user", "fail_ticket", "fail_question", "fail_final"}

\* add_question attaching the question to the newest ticket of the user
\* when there is one
add_question_reusing_ticket(us, ts, qs, user_id, question_text, subject, outcome) ==
    LET own == {i \in DOMAIN ts : ts[i].telegram_id = user_id}
        tid == IF own = {} THEN Len(ts) + 1
               ELSE ts[CHOOSE i \in own : \A j \in own : j <= i].ticket_id
        q   == [ticket_id |-> tid, telegram_id |-> user_id,
                text |-> question_text, subject |-> subject]
    IN  [users |-> IF outcome = "fail_user" THEN us ELSE us \cup {user_id},
         tickets |-> IF outcome \in {"fail_user", "fail_ticket"} \/ own # {}
                     THEN ts
                     ELSE Append(ts, [ticket_id |-> tid, telegram_id |-> user_id]),
         questions |-> IF outcome \in {"fail_user", "fail_ticket", "fail_question"}
                       THEN qs ELSE Append(qs, q),
         raised |-> outcome # "ok",
         returned |-> IF outcome = "ok" THEN <<q>> ELSE <<>>]

\* The commits of add_question in order: user row, ticket row, question row,
\* final commit.  outcome names the first step that raises, if any.
\* returned holds the Question the function returns, when it returns.
add_question(us, ts, qs, user_id, question_text, subject, outcome) ==
    LET us1 == IF outcome = "fail_user" THEN us ELSE us \cup {user_id}
        ts1 == IF outcome \in {"fail_user", "fail_ticket"}
               THEN ts
               ELSE Append(ts, [ticket_id |-> Len(ts) + 1, telegram_id |-> user_id])
        qs1 == IF outcome \in {"fail_user", "fail_ticket", "fail_question"}
               THEN qs
               ELSE Append(qs, [ticket_id |-> Len(ts) + 1, telegram_id |-> user_id,
                                text |-> question_text, subject |-> subject])
    IN  [users |-> us1, tickets |-> ts1, questions |-> qs1,
         raised |-> outcome # "ok",
         returned |-> IF outcome = "ok" THEN <<qs1[Len(qs1)]>> ELSE <<>>]

----------------------------------------------------------------------------
(* Retrieval and escalation: search_similar_docs *)

\* isinstance(doc, str)
IsStr(doc) == doc \in Seq(Chars)

\* ProcessDocs with the boundary excluded (distance >= threshold skips)
RECURSIVE ProcessDocsStrict(_, _, _, _)
ProcessDocsStrict(doc_list, dist_list, threshold, i) ==
    IF i > Min(Len(doc_list), Len(dist_list))
    THEN <<>>
    ELSE IF dist_list[i] >= threshold \/ ~IsStr(doc_list[i])
         THEN ProcessDocsStrict(doc_list, dist_list, threshold, i + 1)
         ELSE <<[text |-> doc_list[i]]>>
                  \o ProcessDocsStrict(doc_list, dist_list, threshold, i + 1)

\* ProcessDocs with the comparison inverted (distance < threshold skips)
RECURSIVE ProcessDocsInverted(_, _, _, _)
ProcessDocsInverted(doc_list, dist_list, threshold, i) ==
    IF i > Min(Len(doc_list), Len(dist_list))
    THEN <<>>
    ELSE IF dist_list[i] < threshold \/ ~IsStr(doc_list[i])
         THEN ProcessDocsInverted(doc_list, dist_list, threshold, i + 1)
         ELSE <<[text |-> doc_list[i]]>>
                  \o ProcessDocsInverted(doc_list, dist_list, threshold, i + 1)

\* ProcessDocs inserting each kept document at the front of the list
RECURSIVE ProcessDocsReversed(_, _, _, _)
ProcessDocsReversed(doc_list, dist_list, threshold, i) ==
    IF i > Min(Len(doc_list), Len(dist_list))
    THEN <<>>
    ELSE IF dist_list[i] > threshold \/ ~IsStr(doc_list[i])
         THEN ProcessDocsReversed(doc_list, dist_list, threshold, i + 1)
         ELSE ProcessDocsReversed(doc_list, dist_list, threshold, i + 1)
                  \o <<[text |-> doc_list[i]]>>

\* The loop over zip(doc_list, dist_list): a result is skipped when
\* distance > threshold, and appended as {"text": doc} when doc is a string.
RECURSIVE ProcessDocs(_, _, _, _)
ProcessDocs(doc_list, dist_list, threshold, i) ==
    IF i > Min(Len(doc_list), Len(dist_list))
    THEN <<>>
    ELSE IF dist_list[i] > threshold
         THEN ProcessDocs(doc_list, dist_list, threshold, i + 1)
         ELSE IF IsStr(doc_list[i])
              THEN <<[text |-> doc_list[i]]>>
                       \o ProcessDocs(doc_list, dist_list, threshold, i + 1)
              ELSE ProcessDocs(doc_list, dist_list, threshold, i + 1)

\* results of knowledge_base.query for the one query text: one list of
\* documents and one list of distances; res are the ids the index answered
QueryResponse(coll, qvec, res) ==
    [documents |-> <<[i \in DOMAIN res |-> coll[res[i]].text]>>,
     distances |-> <<[i \in DOMAIN res |-> Distance(qvec, coll[res[i]].embedding)]>>]

NoResults == [documents |-> <<>>, distances |-> <<>>]

\* The try block of search_similar_docs(knowledge_base, query_text, k,
\* threshold, user_id, subject).  db are the tables users, tickets and
\* questions; env is what the index and the database do during the call
\* (storageOk, the ids res the index answers, addOutcome); exception tells
\* whether the block was left by an exception.
search_body(coll, dim, db, query_text, k, threshold, user_id, subject, env) ==
    LET qvec      == Encode(DefaultModel, query_text)
        us        == db.users
        ts        == db.tickets
        qs        == db.questions
        storageOk == env.storageOk
        res       == env.res
        addOutcome == env.addOutcome
        unchanged == db
        results   == QueryResponse(coll, qvec, res)
        processed_docs ==
            IF Len(results.documents) = 0 THEN <<>>
            ELSE ProcessDocs(results.documents[1], results.distances[1], threshold, 1)
        added     == add_question(us, ts, qs, user_id, query_text, subject, addOutcome)
        call      == [user_id |-> user_id, question_text |-> query_text,
                      subject |-> subject]
    IN  IF QueryRaises(dim, qvec, storageOk)
        THEN [ret |-> <<>>, results |-> NoResults, db |-> unchanged,
              add_calls |-> <<>>, exception |-> TRUE, query_raised |-> TRUE]
        ELSE IF Len(results.documents) = 0
        THEN [ret |-> <<>>, results |-> results, db |-> unchanged,
              add_calls |-> <<>>, exception |-> FALSE, query_raised |-> FALSE]
        ELSE IF processed_docs = <<>> /\ user_id # None
        THEN [ret |-> <<>>, results |-> results,
              db |-> [users |-> added.users, tickets |-> added.tickets,
                      questions |-> added.questions],
              add_calls |-> <<call>>, exception |-> added.raised,
              query_raised |-> FALSE]
        ELSE [ret |-> processed_docs, results |-> results, db |-> unchanged,
              add_calls |-> <<>>, exception |-> FALSE, query_raised |-> FALSE]

\* search_similar_docs without the except clause: an exception of the try
\* block leaves the function
search_similar_docs_no_except(coll, dim, db, query_text, k, threshold, user_id, subject, env) ==
    LET b == search_body(coll, dim, db, query_text, k, threshold, user_id, subject, env)
    IN  [ret |-> IF b.exception THEN <<>> ELSE b.ret,
         results |-> b.results, db |-> b.db, add_calls |-> b.add_calls,
         query_raised |-> b.query_raised, error_logged |-> FALSE,
         raised |-> b.exception,
         ticket_created |-> Len(b.db.tickets) > Len(db.tickets),
         db_written |-> b.db # db]

\* search_similar_docs: the try block and its except clause, which logs the
\* error and returns []; no exception leaves the function.
search_similar_docs(coll, dim, db, query_text, k, threshold, user_id, subject, env) ==
    LET b == search_body(coll, dim, db, query_text, k, threshold, user_id, subject, env)
    IN  [ret |-> IF b.exception THEN <<>> ELSE b.ret,
         results |-> b.results, db |-> b.db, add_calls |-> b.add_calls,
         query_raised |-> b.query_raised, error_logged |-> b.exception,
         raised |-> FALSE,
         ticket_created |-> Len(b.db.tickets) > Len(db.tickets),
         db_written |-> b.db # db]

----------------------------------------------------------------------------
(* Answer synthesizer: generate_response_with_gpt *)

GenOutcomes == {"ok", "none", "raise"}

\* chain.invoke answers (ok), answers None (none) or raises (raise); the
\* function returns the answer, returns the fixed fallback string, or
\* raises HTTPException(500)
generate_response_with_gpt(gen) ==
    IF gen = "ok" THEN [raised |-> FALSE, response |-> "answer"]
    ELSE IF gen = "none" THEN [raised |-> FALSE, response |-> "fallback"]
    ELSE [raised |-> TRUE, response |-> None]

\* the characters html.escape replaces, and one it leaves alone
PromptChars == {"a", "&", "<", ">", "\"", "'"}
PromptTexts == UNION {[1..n -> PromptChars] : n \in 0..MaxPromptLen}

\* html.escape(s, quote=False) of one character
EscapeCharNoQuote(c) ==
    IF c = "&" THEN <<"&", "a", "m", "p", ";">>
    ELSE IF c = "<" THEN <<"&", "l", "t", ";">>
    ELSE IF c = ">" THEN <<"&", "g", "t", ";">>
    ELSE <<c>>

\* html.escape(s) of one character: & first, then < and >, then the quotes
EscapeChar(c) ==
    IF c = "&" THEN <<"&", "a", "m", "p", ";">>
    ELSE IF c = "<" THEN <<"&", "l", "t", ";">>
    ELSE IF c = ">" THEN <<"&", "g", "t", ";">>
    ELSE IF c = "\"" THEN <<"&", "q", "u", "o", "t", ";">>
    ELSE IF c = "'" THEN <<"&", "#", "x", "2", "7", ";">>
    ELSE <<c>>

\* html.escape leaving the quotes as they are
RECURSIVE html_escape_no_quote(_)
html_escape_no_quote(text) ==
    IF text = <<>> THEN <<>>
    ELSE EscapeCharNoQuote(Head(text)) \o html_escape_no_quote(Tail(text))

\* html.escape(text): the replacements are made character by character
RECURSIVE html_escape(_)
html_escape(text) ==
    IF text = <<>> THEN <<>>
    ELSE EscapeChar(Head(text)) \o html_escape(Tail(text))

\* the documents of the context that have the key page_content
RECURSIVE WithPageContent(_)
WithPageContent(context) ==
    IF context = <<>> THEN <<>>
    ELSE IF "page_content" \in DOMAIN Head(context)
         THEN <<Head(context)>> \o WithPageContent(Tail(context))
         ELSE WithPageContent(Tail(context))

\* input_data of generate_response_with_gpt: the escaped page_content of
\* the documents that have one, and the escaped query
input_data(query_text, context) ==
    [context |-> [i \in 1..Len(WithPageContent(context)) |->
                     html_escape(WithPageContent(context)[i].page_content)],
     query   |-> html_escape(query_text)]

----------------------------------------------------------------------------
(* State machine *)

\* the instances of the service that share the Chroma store
Procs == {"p1", "p2"}

\* no call in flight
Idle == [pc |-> "idle"]

\* the group chats the bot is in
Chats == {"c1", "c2"}

\* The users of the bot and ADMIN_IDS; a session is the key of the FSM
\* storage, a user in a chat, the chat being the user's private chat with
\* the bot or a group
BotUsers == {"admin1", "u1"}
ADMIN_IDS == {"admin1"}
\* the FSM keys: the admin in a private chat and in a group, a user who is
\* not an admin in a private chat
Sessions == [user : BotUsers, chat : {"private"}] \cup [user : ADMIN_IDS, chat : {"group"}]

\* the private session of the admin
AdminSession == [user |-> "admin1", chat |-> "private"]
\* the private session of the user who is not an admin
UserSession == [user |-> "u1", chat |-> "private"]
NoState == "None"
AdminStates == {"AdminStates:AUTHENTICATED_ADMIN", "AdminStates:WAITING_FOR_RESPONSE", "AdminStates:VIEW_TICKET", "AdminStates:WAITING_FOR_FILE"}
UserStates == {"UserStates:AUTHENTICATED_USER", "UserStates:WAITING_FOR_RESPONSE", "UserStates:VIEW_TICKET"}

\* a session the MemoryStorage holds nothing for; ticket_id 0 is no
\* ticket_id in the data; by_start tells that the state was entered
\* through start_handler
NoSession == [state |-> NoState, ticket_id |-> 0, by_start |-> FALSE]

\* no migration file, nothing committed, table migrations empty
NoMigrations == [files |-> {}, committed |-> {}, recorded |-> {}]

\* The knowledge_base the admin handlers open, at the directory written in
\* admin_handlers.py: the collection of ingestion and search when
\* CHROMA_PERSIST_DIR names that directory, and otherwise a collection of
\* its own, which nothing writes to.
AdminCollection == IF shared_dir THEN collection ELSE EmptyCollection

\* the tables of the database
Database == [users |-> users, tickets |-> tickets, questions |-> questions]

Init ==
    /\ collection = EmptyCollection
    /\ dimension = 0
    /\ users = {}
    /\ tickets = <<>>
    /\ questions = <<>>
    /\ last = [op |-> "init"]
    /\ calls = [p \in Procs |-> Idle]
    /\ shared_dir \in BOOLEAN
    /\ chat_mentions = [c \in Chats |-> <<>>]
    /\ chat_timeout = [c \in {} |-> 0]
    /\ now = 0
    /\ passed_at = [c \in Chats |-> <<>>]
    /\ fsm = [s \in Sessions |-> NoSession]
    /\ inactive = {}
    /\ closed_by_user = {}
    /\ answers = <<>>
    /\ migrations = NoMigrations

\* POST /embeddings: load_embeddings(model_name, txt_path).  text is the
\* content of the file at txt_path, file_found whether there is such a file.
\* Every exception inside the try block is answered with status 500;
\* add_documents_to_chroma returns normally on each of its paths, so the
\* handler then logs success and answers 200.  The request record keeps the
\* text only when the upsert was performed; again tells that the request
\* before was a performed ingestion of the same text with the same model,
\* storage_ok that the storage of the collection was available.
load_embeddings(model_name, file_found, text, enc, storageOk) ==
    IF ~file_found \/ SplitterRaises(chunk_size, chunk_overlap)
    THEN /\ last' = [op |-> "load_embeddings", text |-> <<>>,
                     model_name |-> model_name, status |-> 500,
                     upserted |-> FALSE, ids |-> <<>>, n_chunks |-> 0,
                     again |-> FALSE, logged |-> "load_error",
                     storage_ok |-> TRUE]
         /\ UNCHANGED <<collection, dimension, users, tickets, questions, calls, shared_dir, limiter, desk, migrations>>
    ELSE \E added \in {add_documents_to_chroma(collection, dimension,
                          split_text_into_chunks(text, chunk_size, chunk_overlap),
                          model_name, enc, storageOk)} :
             /\ collection' = added.coll
             /\ dimension' = added.dim
             /\ last' = [op |-> "load_embeddings",
                         text |-> IF added.upserted THEN text ELSE <<>>,
                         model_name |-> model_name, status |-> 200,
                         upserted |-> added.upserted, ids |-> added.ids,
                         n_chunks |-> Len(split_text(text, chunk_size, chunk_overlap)),
                         again |-> /\ added.upserted
                                   /\ last.op = "load_embeddings"
                                   /\ last.upserted
                                   /\ last.text = text
                                   /\ last.model_name = model_name,
                         logged |-> added.logged,
                         storage_ok |-> storageOk]
             /\ UNCHANGED <<users, tickets, questions, calls, shared_dir, limiter, desk, migrations>>

\* A text of every length.  A request that fails changes nothing and
\* records only the number of chunks, which depends on the length of the
\* text alone, so failing requests are enumerated over these texts.
TextsByLength == {[i \in 1..n |-> "a"] : n \in 0..MaxTextLen}

\* the requests to /embeddings with a model of the set models
LoadEmbeddingsRequest(models) ==
    \E model_name \in models :
        \/ load_embeddings(model_name, FALSE, <<>>, "ok", TRUE)
        \/ \E text \in TextsByLength :
              \/ \E enc \in EncodeOutcomes \ {"ok"} :
                    load_embeddings(model_name, TRUE, text, enc, TRUE)
              \/ load_embeddings(model_name, TRUE, text, "ok", FALSE)
        \/ \E text \in Texts :
              load_embeddings(model_name, TRUE, text, "ok", TRUE)

\* POST /embeddings with any model name
LoadEmbeddings == LoadEmbeddingsRequest(Models)

\* load_embeddings_handler: the bot posts to /embeddings with
\* model_name "distiluse-base-multilingual-cased-v1"
AdminLoadsEmbeddings == LoadEmbeddingsRequest({DefaultModel})

\* A call of search_similar_docs with k and threshold of the caller's
\* choice and no user_id, the way query_llm_rag passes its arguments.
SearchSimilarDocs ==
    \E query_text \in QueryTexts, k \in {1, default_k} :
      \E res \in QueryResults(collection, Encode(DefaultModel, query_text), k),
         threshold \in Thresholds, storageOk \in BOOLEAN :
        \E r \in {search_similar_docs(collection, dimension, Database,
                     query_text, k, threshold, None, "new_question",
                     [storageOk |-> storageOk, res |-> res, addOutcome |-> "ok"])} :
           /\ users' = r.db.users
           /\ tickets' = r.db.tickets
           /\ questions' = r.db.questions
           /\ last' = [op |-> "search", query_text |-> query_text, k |-> k,
                       threshold |-> threshold, user_id |-> None,
                       searched |-> TRUE, results |-> r.results,
                       ret |-> r.ret, add_calls |-> r.add_calls,
                       raised |-> r.raised, query_raised |-> r.query_raised,
                       error_logged |-> r.error_logged,
                       ticket_created |-> r.ticket_created,
                       db_written |-> r.db_written, reply |-> None]
           /\ UNCHANGED <<collection, dimension, calls, shared_dir, limiter, desk, migrations>>

\* handle_mention(message): text is the message text without the mention.
\* generation is what chain.invoke did when generate_response_with_gpt was
\* called; reply is the message sent back: "error" is the reply of the
\* except clause, which is "Произошла ошибка: " followed by str(e), the
\* text of the exception (exception_in_reply).  db are the
\* tables after the handler, last the record of the request.
handle_mention_result(text, user_id, storageOk, res, addOutcome, gen) ==
    IF text = <<>>
    THEN [db |-> Database,
          last |-> [op |-> "handle_mention", query_text |-> text,
                    k |-> default_k, threshold |-> default_threshold,
                    user_id |-> user_id, searched |-> FALSE,
                    results |-> NoResults, ret |-> <<>>,
                    add_calls |-> <<>>, raised |-> FALSE,
                    query_raised |-> FALSE, error_logged |-> FALSE,
                    ticket_created |-> FALSE, db_written |-> FALSE,
                    generation |-> "not_called",
                    reply |-> "no_question",
                    exception_in_reply |-> FALSE]]
    ELSE LET r == search_similar_docs(collection, dimension, Database, text,
                      default_k, default_threshold, user_id, "chat_question",
                      [storageOk |-> storageOk, res |-> res,
                       addOutcome |-> addOutcome])
             g == generate_response_with_gpt(gen)
         IN  [db |-> r.db,
              last |-> [op |-> "handle_mention", query_text |-> text,
                        k |-> default_k, threshold |-> default_threshold,
                        user_id |-> user_id, searched |-> TRUE,
                        results |-> r.results, ret |-> r.ret,
                        add_calls |-> r.add_calls, raised |-> r.raised,
                        query_raised |-> r.query_raised,
                        error_logged |-> r.error_logged,
                        ticket_created |-> r.ticket_created,
                        db_written |-> r.db_written,
                        generation |-> IF r.raised \/ r.ret = <<>>
                                       THEN "not_called" ELSE gen,
                        reply |-> IF r.raised THEN "error"
                                  ELSE IF r.ret = <<>> THEN "ticket_registered"
                                  ELSE IF g.raised THEN "error"
                                  ELSE g.response,
                        exception_in_reply |->
                            r.raised \/ (r.ret # <<>> /\ g.raised)]]

\* handle_mention as a step of its own: the tables and the request record
\* are those of handle_mention_result
handle_mention(text, user_id, storageOk, res, addOutcome, gen) ==
    \E m \in {handle_mention_result(text, user_id, storageOk, res, addOutcome, gen)} :
        /\ Len(m.db.tickets) <= MaxTickets
        /\ users' = m.db.users
        /\ tickets' = m.db.tickets
        /\ questions' = m.db.questions
        /\ last' = m.last
        /\ UNCHANGED <<collection, dimension, calls, shared_dir, limiter, desk, migrations>>

\* One request calls add_question or the text generation, never both: the
\* outcome of the collaborator that is not called is left at "ok".
CollaboratorOutcomes ==
    (AddOutcomes \X {"ok"}) \cup ({"ok"} \X GenOutcomes)

HandleMention ==
    \E text \in QueryTexts :
      \E res \in QueryResults(collection, Encode(DefaultModel, text), default_k),
         user_id \in UserIds :
            \/ handle_mention(text, user_id, FALSE, res, "ok", "ok")
            \/ \E env \in CollaboratorOutcomes :
                  handle_mention(text, user_id, TRUE, res, env[1], env[2])

\* POST /llm_rag: query_llm_rag(query).  search_similar_docs is called
\* without await: docs is a coroutine object, which is true, so the branch
\* that creates a ticket is skipped, and iterating docs raises TypeError.
\* The body of search_similar_docs never runs.
query_llm_rag(query_text) ==
    LET docs_is_empty == FALSE
    IN  /\ last' = [op |-> "query_llm_rag", query_text |-> query_text,
                    searched |-> FALSE, add_calls |-> <<>>,
                    ticket_created |-> FALSE, db_written |-> FALSE,
                    status |-> IF docs_is_empty THEN 404 ELSE 500]
        /\ UNCHANGED <<collection, dimension, users, tickets, questions, calls, shared_dir, limiter, desk, migrations>>

QueryLlmRag ==
    \E query_text \in QueryTexts : query_llm_rag(query_text)

\* clear_chroma_handler: the command /clear_chroma, on the knowledge_base of
\* the admin handlers.  The reply is an error only when
\* initialize_chroma_client raises; clear_chroma_collection returns
\* normally on each of its paths.
clear_chroma_handler(outcome) ==
    IF outcome = "client_raises"
    THEN /\ last' = [op |-> "clear", all_ids |-> {}, logged |-> "handler_error",
                     reply |-> "error"]
         /\ UNCHANGED <<collection, dimension, users, tickets, questions, calls, shared_dir, limiter, desk, migrations>>
    ELSE \E r \in {clear_chroma_collection(AdminCollection, outcome)} :
             /\ collection' = IF shared_dir THEN r.coll ELSE collection
             /\ last' = [op |-> "clear", all_ids |-> r.all_ids,
                         logged |-> r.logged, reply |-> "cleared"]
             /\ UNCHANGED <<dimension, users, tickets, questions, calls, shared_dir, limiter, desk, migrations>>

ClearChroma ==
    \E outcome \in ClearOutcomes : clear_chroma_handler(outcome)

\* get_documents_from_chroma(knowledge_base, limit=10): the documents of at
\* most limit entries; a storage error is logged and gives empty lists
show_limit == 10

ShowOutcomes == {"ok", "client_raises", "get_raises"}

get_documents_from_chroma(coll, outcome) ==
    IF outcome = "get_raises"
    THEN [documents |-> <<>>, logged |-> "get_error"]
    ELSE [documents |-> [i \in 1..Min(show_limit, Cardinality(DOMAIN coll)) |->
                            coll[i].text],
          logged |-> "extracted"]

\* show_embeddings_handler: the command /showembeddings, on the
\* knowledge_base of the admin handlers.  The result of
\* get_documents_from_chroma is a dict with two keys on each path, so the
\* "collection is empty" reply is never sent; the documents are listed, each
\* cut to its first 200 characters.
show_embeddings_handler(outcome) ==
    /\ last' = IF outcome = "client_raises"
                THEN [op |-> "show", documents |-> <<>>,
                      logged |-> "handler_error", reply |-> "error"]
                ELSE LET r == get_documents_from_chroma(AdminCollection, outcome)
                     IN  [op |-> "show", documents |-> r.documents,
                          logged |-> r.logged, reply |-> "listing"]
    /\ UNCHANGED <<collection, dimension, users, tickets, questions, calls, shared_dir, limiter, desk, migrations>>

ShowEmbeddings ==
    \E outcome \in ShowOutcomes : show_embeddings_handler(outcome)

\* A mention answered with every collaborator healthy
HandleMentionHealthy ==
    \E text \in QueryTexts :
      \E res \in QueryResults(collection, Encode(DefaultModel, text), default_k),
         user_id \in UserIds :
            handle_mention(text, user_id, TRUE, res, "ok", "ok")

\* The mention limiter of chat_handlers.py.  Times are in units of 60
\* seconds: a mention counts while it is less than 60 seconds old, that is
\* within its own unit of time and not at the next one; more than
\* mention_limit of them silence the bot in the chat for 300 seconds.
MaxTime == 5

mention_window == 1
mention_limit == 3
timeout_duration == 5

\* what a group message is to handle_group_message: a text without "/" and
\* without the bot's name, a text with "/", a text naming the bot, a
\* caption naming the bot, a text with "/" that names the bot
MessageKinds == {"plain", "command", "mention", "caption", "command_mention"}
MentionKinds == {"mention", "caption"}

\* message.text and '/' in message.text, looked at only when the message
\* does not name the bot
IsCommandUnlessMention(kind) ==
    kind = "command"

\* message.text and '/' in message.text
IsCommand(kind) ==
    kind \in {"command", "command_mention"}

\* f"@{bot_username}" in message.text, or in message.caption
NamesBot(kind) ==
    kind \in {"mention", "caption", "command_mention"}

\* chat_id in chat_timeout and current_time < chat_timeout[chat_id], with
\* the timeout ending one unit early
InTimeoutEndsEarly(timeouts, chat, current_time) ==
    chat \in DOMAIN timeouts /\ current_time + 1 < timeouts[chat]

\* chat_id in chat_timeout and current_time < chat_timeout[chat_id]
InTimeout(timeouts, chat, current_time) ==
    chat \in DOMAIN timeouts /\ current_time < timeouts[chat]

\* the list comprehension of process_mention without its condition
PruneNothing(timestamps, current_time) ==
    timestamps

\* [timestamp for timestamp in chat_mentions[chat_id]
\*  if current_time - timestamp < 60]
Prune(timestamps, current_time) ==
    SelectSeq(timestamps, LAMBDA timestamp : current_time - timestamp < mention_window)

\* len(chat_mentions[chat_id]) > 3, with the limit one higher
RateLimitedLoose(recorded) ==
    Len(recorded) > mention_limit + 1

\* len(chat_mentions[chat_id]) > 3
RateLimited(recorded) ==
    Len(recorded) > mention_limit

\* chat_timeout[chat_id] = current_time + 300
SetTimeout(timeouts, chat, current_time) ==
    [c \in DOMAIN timeouts \cup {chat} |->
        IF c = chat THEN current_time + timeout_duration ELSE timeouts[c]]

\* the times of log that are less than 60 seconds before t
Recent(log, t) ==
    SelectSeq(log, LAMBDA timestamp : t - timestamp < mention_window)

\* A message the handler answers without process_mention, or not at all
group_message_reply(msg, in_timeout, reply) ==
    /\ last' = [op |-> "handle_group_message", chat |-> msg.chat,
                 kind |-> msg.kind, in_timeout |-> in_timeout,
                 passed |-> FALSE, reply |-> reply]
    /\ UNCHANGED <<collection, dimension, users, tickets, questions, calls, shared_dir, limiter, desk, migrations>>

\* process_mention(message, state, chat_id, current_time): the mentions of
\* the chat are pruned, the new one is recorded, and the mention is either
\* refused with a timeout for the chat or passed to handle_mention.  env is
\* what the index does during handle_mention.
process_mention(msg, current_time, env) ==
    \E recorded \in {Append(Prune(chat_mentions[msg.chat], current_time), current_time)} :
        /\ chat_mentions' = [chat_mentions EXCEPT ![msg.chat] = recorded]
        /\ IF RateLimited(recorded)
           THEN /\ chat_timeout' = SetTimeout(chat_timeout, msg.chat, current_time)
                /\ last' = [op |-> "handle_group_message", chat |-> msg.chat,
                            kind |-> msg.kind, in_timeout |-> FALSE,
                            passed |-> FALSE, reply |-> "rate_limited"]
                /\ UNCHANGED <<users, tickets, questions, passed_at>>
           ELSE \E m \in {handle_mention_result(msg.text, msg.user_id, env.storageOk, env.res, "ok", "ok")} :
                    /\ Len(m.db.tickets) <= MaxTickets
                    /\ users' = m.db.users
                    /\ tickets' = m.db.tickets
                    /\ questions' = m.db.questions
                    /\ passed_at' = [passed_at EXCEPT ![msg.chat] = Append(@, current_time)]
                    /\ last' = [op |-> "handle_group_message", chat |-> msg.chat,
                                kind |-> msg.kind, in_timeout |-> FALSE,
                                passed |-> TRUE, reply |-> m.last.reply]
                    /\ UNCHANGED chat_timeout
        /\ UNCHANGED <<collection, dimension, calls, shared_dir, now, desk, migrations>>

\* handle_group_message(message, state), from current_time = time.time()
\* on; nothing is awaited between there and the end of the limiter's part
\* of process_mention, so this part of the handler is one step.
handle_group_message(msg, env) ==
    IF InTimeout(chat_timeout, msg.chat, now)
    THEN group_message_reply(msg, TRUE, "none")
    ELSE IF IsCommand(msg.kind)
    THEN group_message_reply(msg, FALSE, "command_forbidden")
    ELSE IF NamesBot(msg.kind)
    THEN process_mention(msg, now, env)
    ELSE group_message_reply(msg, FALSE, "none")

\* the text of a message is what is left of it without the bot's name
HandleGroupMessage ==
    \E chat \in Chats, kind \in MessageKinds, text \in QueryTexts, storageOk \in BOOLEAN :
      \E res \in QueryResults(collection, Encode(DefaultModel, text), default_k),
         user_id \in UserIds :
            handle_group_message(
                [chat |-> chat, kind |-> kind, text |-> text, user_id |-> user_id],
                [storageOk |-> storageOk, res |-> res])

\* time passes; the history forgets the mentions passed 60 seconds ago
Tick ==
    /\ now < MaxTime
    /\ now' = now + 1
    /\ passed_at' = [c \in Chats |-> Recent(passed_at[c], now + 1)]
    /\ UNCHANGED <<collection, dimension, users, tickets, questions, last, calls,
                   shared_dir, chat_mentions, chat_timeout, desk, migrations>>

\* The query paths of the service: ingestion requested by the admin
\* handler, the chat handler, and the /llm_rag entrypoint.
Next ==
    \/ AdminLoadsEmbeddings
    \/ HandleMention
    \/ QueryLlmRag

\* The deployment in which CHROMA_PERSIST_DIR is the directory of the admin
\* handlers.  No action of Next reads shared_dir, so this deployment stands
\* for both; the same holds for the other specifications that start here.
InitShared == Init /\ shared_dir

Spec == InitShared /\ [][Next]_vars

\* The admin commands on the knowledge base, in both deployments, and the
\* mentions answered between them.
NextAdmin ==
    \/ AdminLoadsEmbeddings
    \/ ClearChroma
    \/ ShowEmbeddings
    \/ HandleMentionHealthy

SpecAdmin == Init /\ [][NextAdmin]_vars

\* The messages of the group chats, as time passes.
NextLimiter ==
    \/ HandleGroupMessage
    \/ Tick

SpecLimiter == InitShared /\ [][NextLimiter]_vars

\* The retriever alone: ingestions, and calls of search_similar_docs with
\* every k and threshold.
NextSearch ==
    \/ AdminLoadsEmbeddings
    \/ SearchSimilarDocs

SpecSearch == InitShared /\ [][NextSearch]_vars

\* The help desk: the handlers of the routers that main.py includes, and
\* the FSM storage they read and write.  An update is a message or a
\* callback query; messages here do not name the bot.
MessageContents == {"/start", "/home", "/uploadtxt", "/getticket", "/clear_chroma", "text", "photo", "no_text", "txt_document", "other_document"}

\* message.text is set: commands and plain texts (a photo carries its text
\* as caption, a document here has none)
HasText(content) ==
    content \in {"/start", "/home", "/uploadtxt", "/getticket", "/clear_chroma", "text"}

\* message.text or message.caption
HasTextOrCaption(content) ==
    HasText(content) \/ content = "photo"

\* callback data that end in a ticket id, and callback data that do not
TicketCallbacks == {"view_active_ticket_", "answer_ticket_", "close_ticket_", "download_media_", "view_ticket_", "view_user_ticket_", "user_answer_ticket_", "close_user_ticket_", "view_user_closed_ticket_"}
PlainCallbacks == {"getticket", "get_tickets", "get_active_tickets", "return_to_authorized", "return_to_closed_tickets", "return_to_user_tickets", "return_to_user_closed_tickets"}

Updates ==
    [type : {"message"}, content : MessageContents, ticket : {0}]
        \cup [type : {"callback"}, content : TicketCallbacks, ticket : 1..(MaxTickets + 1)]
        \cup [type : {"callback"}, content : PlainCallbacks, ticket : {0}]

\* What the collaborators do while an update is handled: all succeed; the
\* database raises; every call of the Telegram API raises; the first call
\* of the Telegram API succeeds and the later ones raise; the photo of the
\* message fails validate_and_compress_media
Envs == {"ok", "db_fails", "telegram_fails", "notice_fails", "media_invalid"}

\* user_id in ADMIN_IDS, with everyone taken for an admin
IsAdminAnyone(user) ==
    TRUE

\* user_id in ADMIN_IDS
IsAdmin(user) ==
    user \in ADMIN_IDS

\* start_handler, setting UserStates.AUTHENTICATED_USER for a user that is
\* not an admin
StartStateAuthenticatesUsers(state, user) ==
    IF IsAdmin(user) THEN "AdminStates:AUTHENTICATED_ADMIN"
    ELSE "UserStates:AUTHENTICATED_USER"

\* the state start_handler leaves: AUTHENTICATED_ADMIN for an admin, and
\* the state as it was for everyone else
StartState(state, user) ==
    IF IsAdmin(user) THEN "AdminStates:AUTHENTICATED_ADMIN" ELSE state

\* The message handlers in the order in which the dispatcher tries them:
\* the routers in the order of dp.include_router, the handlers of a router
\* in the order of their registration.  The handlers of admin_router and
\* the ticket routers that filter on a command and AUTHENTICATED_ADMIN come
\* after handle_private_message, which takes every message in that state,
\* and are called by it.
MessageHandlers == <<"start_handler", "handle_private_message", "handle_user_message", "handle_txt_upload", "user_receive_answer", "receive_answer", "handle_group_message">>

\* the same handlers with start_handler tried after the handlers that
\* filter on a state
MessageHandlersStartLast == <<"handle_private_message", "handle_user_message", "handle_txt_upload", "user_receive_answer", "receive_answer", "start_handler", "handle_group_message">>

\* the filters of the message handlers
MessageMatches(handler, state, content) ==
    IF handler = "start_handler" THEN content = "/start"
    ELSE IF handler = "handle_private_message" THEN state = "AdminStates:AUTHENTICATED_ADMIN"
    ELSE IF handler = "handle_user_message" THEN state = "UserStates:AUTHENTICATED_USER"
    ELSE IF handler = "handle_txt_upload"
         THEN state = "AdminStates:WAITING_FOR_FILE" /\ content \in {"txt_document", "other_document"}
    ELSE IF handler = "user_receive_answer" THEN state = "UserStates:WAITING_FOR_RESPONSE"
    ELSE IF handler = "receive_answer" THEN state = "AdminStates:WAITING_FOR_RESPONSE"
    ELSE TRUE

\* the first handler of the order whose filters the message passes
FirstMatch(order, state, content) ==
    order[CHOOSE i \in DOMAIN order :
            /\ MessageMatches(order[i], state, content)
            /\ \A j \in 1..(i - 1) : ~MessageMatches(order[j], state, content)]

\* the callback handlers: callback data, state filter, handler
CallbackHandlers ==
    {<<"getticket", "AdminStates:AUTHENTICATED_ADMIN", "get_ticket_callback_handler">>,
     <<"view_user_ticket_", "UserStates:AUTHENTICATED_USER", "view_user_ticket">>,
     <<"user_answer_ticket_", "UserStates:VIEW_TICKET", "user_reply_ticket">>,
     <<"download_media_", "UserStates:VIEW_TICKET", "user_download_media_handler">>,
     <<"return_to_user_tickets", "UserStates:VIEW_TICKET", "return_to_user_tickets">>,
     <<"close_user_ticket_", "UserStates:VIEW_TICKET", "close_user_ticket_handler">>,
     <<"view_user_closed_ticket_", "UserStates:AUTHENTICATED_USER", "view_user_closed_ticket">>,
     <<"return_to_user_closed_tickets", "UserStates:VIEW_TICKET", "return_to_user_closed_tickets">>,
     <<"view_active_ticket_", "AdminStates:AUTHENTICATED_ADMIN", "view_active_ticket">>,
     <<"answer_ticket_", "AdminStates:VIEW_TICKET", "answer_ticket">>,
     <<"get_tickets", "AdminStates:AUTHENTICATED_ADMIN", "return_to_tickets_after_response">>,
     <<"get_active_tickets", "AdminStates:VIEW_TICKET", "return_to_active_tickets">>,
     <<"close_ticket_", "AdminStates:VIEW_TICKET", "close_ticket_handler">>,
     <<"download_media_", "AdminStates:VIEW_TICKET", "download_media_handler">>,
     <<"return_to_authorized", "AdminStates:AUTHENTICATED_ADMIN", "return_to_authorized">>,
     <<"view_ticket_", "AdminStates:AUTHENTICATED_ADMIN", "view_ticket">>,
     <<"return_to_closed_tickets", "AdminStates:VIEW_TICKET", "return_to_closed_tickets">>}

\* the handler that takes the update in the state, "unhandled" when no
\* callback handler does, with start_handler tried last
RouteStartLast(state, u) ==
    IF u.type = "message"
    THEN FirstMatch(MessageHandlersStartLast, state, u.content)
    ELSE LET hs == {h \in CallbackHandlers : h[1] = u.content /\ h[2] = state}
         IN  IF hs = {} THEN "unhandled" ELSE (CHOOSE h \in hs : TRUE)[3]

\* the handler that takes the update in the state, "unhandled" when no
\* callback handler does
Route(state, u) ==
    IF u.type = "message"
    THEN FirstMatch(MessageHandlers, state, u.content)
    ELSE LET hs == {h \in CallbackHandlers : h[1] = u.content /\ h[2] = state}
         IN  IF hs = {} THEN "unhandled" ELSE (CHOOSE h \in hs : TRUE)[3]

TelegramFails(env) == env \in {"telegram_fails", "notice_fails"}

\* get_ticket_history(ticket_id) is not empty
HasHistory(d, ticket_id) ==
    \/ \E i \in DOMAIN d.questions : d.questions[i].ticket_id = ticket_id
    \/ \E i \in DOMAIN d.answers : d.answers[i].ticket_id = ticket_id

\* select(Ticket).where(Ticket.ticket_id == ticket_id) finds a row
TicketExists(d, ticket_id) ==
    \E i \in DOMAIN d.tickets : d.tickets[i].ticket_id = ticket_id

\* state.set_state(state)
SetState(d, state) ==
    [d EXCEPT !.session.state = state]

\* start_handler: ignored outside a private chat; set_state is the first
\* call for an admin, a refusal is sent to everyone else
start_handler(d, who) ==
    IF who.chat # "private" THEN d
    ELSE [d EXCEPT !.session.state = StartState(@, who.user),
                   !.session.by_start = @ \/ IsAdmin(who.user)]

\* show_tickets_page: AUTHENTICATED_ADMIN is set with or without active
\* tickets; an exception leaves the state
show_tickets_page(d, env) ==
    IF env \in {"db_fails", "telegram_fails", "notice_fails"} THEN d
    ELSE SetState(d, "AdminStates:AUTHENTICATED_ADMIN")

\* view_active_ticket, view_ticket, view_user_ticket and
\* view_user_closed_ticket: without history, and on an exception, nothing
\* is saved; otherwise the ticket is shown, ticket_id is saved in the data
\* and the state is set to view_state
view(d, ticket_id, view_state, env) ==
    IF env \in {"db_fails", "telegram_fails", "notice_fails"} \/ ~HasHistory(d, ticket_id)
    THEN d
    ELSE [d EXCEPT !.session.ticket_id = ticket_id, !.session.state = view_state]

\* answer_ticket and user_reply_ticket: the prompt is sent, then the state
\* is set
ask_for_answer(d, waiting_state, env) ==
    IF TelegramFails(env) THEN d ELSE SetState(d, waiting_state)

\* close_ticket_handler: close_ticket_by_admin(ticket_id) of the callback
\* data; the state stays VIEW_TICKET
close_ticket_handler(d, ticket_id, env) ==
    IF env = "db_fails" \/ ~TicketExists(d, ticket_id) THEN d
    ELSE [d EXCEPT !.inactive = @ \cup {ticket_id}]

\* return_to_closed_tickets: without closed tickets, and on an exception,
\* the state stays VIEW_TICKET
return_to_closed_tickets(d, env) ==
    IF env \in {"db_fails", "telegram_fails", "notice_fails"} THEN d
    ELSE IF \A i \in DOMAIN d.tickets : d.tickets[i].ticket_id \notin d.inactive THEN d
    ELSE SetState(d, "AdminStates:AUTHENTICATED_ADMIN")

\* handle_private_message in a private chat: message.text.startswith('/')
\* raises for a message without text; a command of admin_commands calls
\* its handler, every other text is answered
handle_private_message(d, who, content, env) ==
    IF who.chat # "private" \/ ~HasText(content) THEN d
    ELSE IF content = "/home"
         THEN IF TelegramFails(env) THEN d
              ELSE SetState(d, "AdminStates:AUTHENTICATED_ADMIN")
    ELSE IF content = "/uploadtxt"
         THEN IF TelegramFails(env) THEN d
              ELSE SetState(d, "AdminStates:WAITING_FOR_FILE")
    ELSE IF content = "/getticket" THEN show_tickets_page(d, env)
    ELSE IF content = "/clear_chroma"
         THEN [d EXCEPT !.coll = IF shared_dir
                                 THEN clear_chroma_collection(@, IF env = "db_fails" THEN "get_raises" ELSE "ok").coll
                                 ELSE @]
    ELSE d

\* handle_txt_upload: a file that is not .txt is refused and the state
\* stays; otherwise the state is set after the try block, unless the notice
\* of the except clause raises
handle_txt_upload(d, content, env) ==
    IF content = "other_document" THEN d
    ELSE IF TelegramFails(env) THEN d
    ELSE SetState(d, "AdminStates:AUTHENTICATED_ADMIN")

\* receive_answer.  The first reply is sent outside the try block.  Inside
\* it: a message without text and a photo that fails validation are
\* refused and the state stays; the photo is fetched from Telegram;
\* add_answer commits the row of the admin, stores the answer for the
\* ticket_id of the data, and returns (None, None) for a ticket that does
\* not exist, which raises at new_answer.answer_id; then the notice is sent
\* and the state is set.  The except clause sends a notice and sets the
\* state.
receive_answer(d, who, content, env) ==
    IF env = "telegram_fails" THEN d
    ELSE IF ~HasTextOrCaption(content) THEN d
    ELSE IF content = "photo" /\ env \in {"media_invalid", "notice_fails"} THEN d
    ELSE IF env = "db_fails"
         THEN SetState(d, "AdminStates:AUTHENTICATED_ADMIN")
    ELSE LET known == [d EXCEPT !.users = @ \cup {who.user}]
             saved == [known EXCEPT !.answers = Append(@, [ticket_id |-> d.session.ticket_id,
                                                           telegram_id |-> who.user])]
         IN  IF ~TicketExists(d, d.session.ticket_id)
             THEN IF env = "notice_fails" THEN known
                  ELSE SetState(known, "AdminStates:AUTHENTICATED_ADMIN")
             ELSE IF env = "notice_fails" THEN saved
                  ELSE SetState(saved, "AdminStates:AUTHENTICATED_ADMIN")

\* the subject of the newest question of the ticket
SubjectOf(d, ticket_id) ==
    LET qs == {i \in DOMAIN d.questions : d.questions[i].ticket_id = ticket_id}
    IN  IF qs = {} THEN "None"
        ELSE d.questions[CHOOSE i \in qs : \A j \in qs : j <= i].subject

\* user_receive_answer: a message without text is refused; a photo is
\* fetched from Telegram; the ticket of the data is set active and
\* add_question_to_ticket adds the question and sets it active again,
\* raising ValueError without the ticket; then the notice is sent and the
\* state is set.  The except clause sends a notice and sets VIEW_TICKET.
user_receive_answer(d, who, content, env) ==
    IF ~HasTextOrCaption(content) \/ (content = "photo" /\ TelegramFails(env))
    THEN d
    ELSE IF env = "db_fails" THEN SetState(d, "UserStates:VIEW_TICKET")
    ELSE IF ~TicketExists(d, d.session.ticket_id)
         THEN IF TelegramFails(env) THEN d ELSE SetState(d, "UserStates:VIEW_TICKET")
    ELSE LET saved == [d EXCEPT
                         !.inactive = @ \ {d.session.ticket_id},
                         !.questions = Append(@, [ticket_id |-> d.session.ticket_id,
                                                  telegram_id |-> who.user,
                                                  text |-> <<"a">>,
                                                  subject |-> SubjectOf(d, d.session.ticket_id)])]
         IN  IF TelegramFails(env) THEN saved
             ELSE SetState(saved, "UserStates:AUTHENTICATED_USER")

\* close_user_ticket_handler: the ticket of the callback data gets
\* active = False and closed_by_user = True; without the ticket the state
\* stays; the except clause sends a notice and sets the state
close_user_ticket_handler(d, ticket_id, env) ==
    IF env = "db_fails" THEN SetState(d, "UserStates:AUTHENTICATED_USER")
    ELSE IF ~TicketExists(d, ticket_id) THEN d
    ELSE LET closed == [d EXCEPT !.inactive = @ \cup {ticket_id},
                                 !.closed_by_user = @ \cup {ticket_id}]
         IN  IF TelegramFails(env) THEN closed
             ELSE SetState(closed, "UserStates:AUTHENTICATED_USER")

\* what the handler does with the update
RunHandler(handler, d, who, u, env) ==
    IF handler = "start_handler" THEN start_handler(d, who)
    ELSE IF handler = "handle_private_message" THEN handle_private_message(d, who, u.content, env)
    ELSE IF handler = "handle_txt_upload" THEN handle_txt_upload(d, u.content, env)
    ELSE IF handler = "receive_answer" THEN receive_answer(d, who, u.content, env)
    ELSE IF handler = "user_receive_answer" THEN user_receive_answer(d, who, u.content, env)
    ELSE IF handler \in {"get_ticket_callback_handler", "return_to_tickets_after_response", "return_to_active_tickets"}
         THEN show_tickets_page(d, env)
    ELSE IF handler \in {"view_active_ticket", "view_ticket"}
         THEN view(d, u.ticket, "AdminStates:VIEW_TICKET", env)
    ELSE IF handler \in {"view_user_ticket", "view_user_closed_ticket"}
         THEN view(d, u.ticket, "UserStates:VIEW_TICKET", env)
    ELSE IF handler = "answer_ticket" THEN ask_for_answer(d, "AdminStates:WAITING_FOR_RESPONSE", env)
    ELSE IF handler = "user_reply_ticket" THEN ask_for_answer(d, "UserStates:WAITING_FOR_RESPONSE", env)
    ELSE IF handler = "close_ticket_handler" THEN close_ticket_handler(d, u.ticket, env)
    ELSE IF handler = "close_user_ticket_handler" THEN close_user_ticket_handler(d, u.ticket, env)
    ELSE IF handler = "return_to_closed_tickets" THEN return_to_closed_tickets(d, env)
    ELSE IF handler = "return_to_authorized"
         THEN IF TelegramFails(env) THEN d ELSE SetState(d, "AdminStates:AUTHENTICATED_ADMIN")
    ELSE IF handler \in {"return_to_user_tickets", "return_to_user_closed_tickets"}
         THEN SetState(d, "UserStates:AUTHENTICATED_USER")
    ELSE d

\* the handlers behind an AdminStates filter: they answer and close
\* tickets, clear and load the index, and set AdminStates states
AdminHandlers == {"handle_private_message", "handle_txt_upload", "receive_answer", "get_ticket_callback_handler", "view_active_ticket", "answer_ticket", "return_to_tickets_after_response", "return_to_active_tickets", "close_ticket_handler", "download_media_handler", "return_to_authorized", "view_ticket", "return_to_closed_tickets"}

\* The dispatcher feeds an update of a session to the handler that takes
\* it.
handle_update(who, u, handler, env) ==
    \E d \in {RunHandler(handler,
                  [session |-> fsm[who], inactive |-> inactive,
                   closed_by_user |-> closed_by_user, answers |-> answers,
                   questions |-> questions, tickets |-> tickets,
                   users |-> users, coll |-> collection],
                  who, u, env)} :
        /\ Len(d.answers) <= MaxTickets
        /\ Len(d.questions) <= MaxTickets + 2
        /\ fsm' = [fsm EXCEPT ![who] = d.session]
        /\ inactive' = d.inactive
        /\ closed_by_user' = d.closed_by_user
        /\ answers' = d.answers
        /\ questions' = d.questions
        /\ users' = d.users
        /\ collection' = d.coll
        /\ last' = [op |-> "update", handler |-> handler, session |-> who,
                    state_before |-> fsm[who].state,
                    start |-> u.type = "message" /\ u.content = "/start",
                    text |-> u.type = "message" /\ HasText(u.content),
                    photo |-> u.type = "message" /\ u.content = "photo"]
        /\ UNCHANGED <<dimension, tickets, calls, shared_dir, limiter, migrations>>

\* the handlers whose effect on the session and the tables depends on
\* what the collaborators do; the others change state before their first
\* call or not at all
Fallible == {"handle_private_message", "handle_txt_upload", "receive_answer", "user_receive_answer", "get_ticket_callback_handler", "return_to_tickets_after_response", "return_to_active_tickets", "view_active_ticket", "view_ticket", "view_user_ticket", "view_user_closed_ticket", "answer_ticket", "user_reply_ticket", "close_ticket_handler", "close_user_ticket_handler", "return_to_closed_tickets", "return_to_authorized"}

\* the outcomes of the collaborators a handler tells apart: the handlers
\* that take an answer tell all of them apart, the other handlers with a
\* try block a failing database and a failing Telegram call
Outcomes(handler) ==
    IF handler \in {"receive_answer", "user_receive_answer"} THEN Envs
    ELSE IF handler \in Fallible THEN {"ok", "db_fails", "telegram_fails"}
    ELSE {"ok"}

HandleUpdate ==
    \E who \in Sessions, u \in Updates :
        \E handler \in {Route(fsm[who].state, u)} :
            \E env \in Outcomes(handler) : handle_update(who, u, handler, env)

\* a user's question becomes a ticket
NewTicket ==
    /\ Len(tickets) <= MaxTickets
    /\ \E r \in {add_question(users, tickets, questions, "u1", <<"a">>, "new_question", "ok")} :
          /\ users' = r.users
          /\ tickets' = r.tickets
          /\ questions' = r.questions
          /\ last' = [op |-> "add_question", user_id |-> "u1",
                      question_text |-> <<"a">>, subject |-> "new_question",
                      raised |-> r.raised, returned |-> r.returned]
    /\ UNCHANGED <<collection, dimension, calls, shared_dir, limiter, migrations, desk>>

\* The help desk from sessions the storage holds nothing for.
NextDesk ==
    \/ HandleUpdate
    \/ NewTicket

SpecDesk == InitShared /\ [][NextDesk]_vars

\* The user's side of the help desk: the private session of user u1 is in
\* UserStates.AUTHENTICATED_USER, the state the filters of the user
\* handlers start from, and the updates are the user's.
InitUserDesk ==
    /\ collection = EmptyCollection
    /\ dimension = 0
    /\ users = {}
    /\ tickets = <<>>
    /\ questions = <<>>
    /\ last = [op |-> "init"]
    /\ calls = [p \in Procs |-> Idle]
    /\ shared_dir = TRUE
    /\ chat_mentions = [c \in Chats |-> <<>>]
    /\ chat_timeout = [c \in {} |-> 0]
    /\ now = 0
    /\ passed_at = [c \in Chats |-> <<>>]
    /\ fsm = [s \in Sessions |->
                IF s = UserSession
                THEN [NoSession EXCEPT !.state = "UserStates:AUTHENTICATED_USER"]
                ELSE NoSession]
    /\ inactive = {}
    /\ closed_by_user = {}
    /\ answers = <<>>
    /\ migrations = NoMigrations

\* an update of the user's private session
HandleUserUpdate ==
    \E u \in Updates :
        \E handler \in {Route(fsm[UserSession].state, u)} :
            \E env \in Outcomes(handler) : handle_update(UserSession, u, handler, env)

NextUserDesk ==
    \/ HandleUserUpdate
    \/ NewTicket

SpecUserDesk == InitUserDesk /\ [][NextUserDesk]_vars

\* apply_migrations.  A migration file is named by a number, the order of
\* the numbers being the order of the file names.
MaxMigrations == 3

MigrationNames == 1..MaxMigrations

\* new_migrations.sort(): the names in ascending order
RECURSIVE Sorted(_)
Sorted(names) ==
    IF names = {} THEN <<>>
    ELSE LET m == CHOOSE x \in names : \A y \in names : x <= y
         IN  <<m>> \o Sorted(names \ {m})

\* What a run of apply_migrations meets: every statement succeeds (ok),
\* the SQL of the k-th new migration raises (sql_fails), conn.commit()
\* raises (commit_fails), or session.commit() of the Migration rows raises
\* after the SQL was committed (bookkeeping_fails)
MigrationOutcomes(new) ==
    {[kind |-> k, at |-> 0] : k \in {"ok", "commit_fails", "bookkeeping_fails"}}
        \cup {[kind |-> "sql_fails", at |-> i] : i \in DOMAIN new}

\* apply_migrations(): the names in the table are read, the files not among
\* them are sorted and executed on one connection in one transaction, which
\* is committed; then the names are added to the table in the session and
\* the session is committed.  An exception rolls the connection back.
apply_migrations(outcome) ==
    LET applied_migrations == migrations.recorded
        new_migrations == Sorted(migrations.files \ applied_migrations)
        executed == IF outcome.kind = "sql_fails"
                    THEN SubSeq(new_migrations, 1, outcome.at)
                    ELSE new_migrations
        names == {new_migrations[i] : i \in DOMAIN new_migrations}
    IN  /\ migrations' =
              [migrations EXCEPT
                 !.committed = IF outcome.kind \in {"ok", "bookkeeping_fails"}
                               THEN @ \cup names ELSE @,
                 !.recorded = IF outcome.kind = "ok" THEN @ \cup names ELSE @]
        /\ last' = [op |-> "apply_migrations", executed |-> executed,
                    outcome |-> IF new_migrations = <<>> THEN "nothing_new"
                                ELSE outcome.kind,
                    recorded_before |-> migrations.recorded,
                    committed_before |-> migrations.committed]
        /\ UNCHANGED <<collection, dimension, users, tickets, questions, calls, shared_dir, limiter, desk>>

ApplyMigrations ==
    \E outcome \in MigrationOutcomes(Sorted(migrations.files \ migrations.recorded)) :
        apply_migrations(outcome)

\* a file is added to the folder migrations between two starts
NewMigrationFile ==
    \E m \in MigrationNames \ migrations.files :
        /\ migrations' = [migrations EXCEPT !.files = @ \cup {m}]
        /\ last' = [op |-> "new_migration_file", name |-> m]
        /\ UNCHANGED <<collection, dimension, users, tickets, questions, calls, shared_dir, limiter, desk>>

\* The starts of the application, with the folder migrations growing.
NextMigrations ==
    \/ ApplyMigrations
    \/ NewMigrationFile

SpecMigrations == InitShared /\ [][NextMigrations]_vars

\* The ingestion entrypoint alone, with every model name.
NextIngest == LoadEmbeddings

SpecIngest == InitShared /\ [][NextIngest]_vars

\* Several instances of the service on one Chroma store.  One instance runs
\* load_embeddings and clear_chroma_collection without suspension; between
\* instances the calls on the store interleave: an ingestion computes ids,
\* documents and embeddings and then upserts them, a clearing reads all ids
\* and then deletes them.  Each call on the store is one step.
RaceTexts == {<<"a">>, <<"b", "b">>, <<"a", "b", "a">>}

\* add_documents_to_chroma up to the upsert: documents, ids and embeddings
\* of the chunks of a text
BeginIngestion ==
    \E p \in Procs, text \in RaceTexts :
        LET chunks    == split_text_into_chunks(text, chunk_size, chunk_overlap)
            documents == [i \in DOMAIN chunks |-> chunks[i].text]
            ids       == [i \in DOMAIN chunks |-> chunks[i].id]
        IN  /\ calls[p] = Idle
            /\ calls' = [calls EXCEPT ![p] =
                            [pc |-> "upsert", ids |-> ids, documents |-> documents,
                             embeddings |-> Embeddings(DefaultModel, documents, "ok"),
                             overlapped |-> FALSE]]
            /\ UNCHANGED <<collection, dimension, users, tickets, questions, last, shared_dir, limiter, desk, migrations>>

\* knowledge_base.upsert of the call in flight.  overlapped tells that
\* another instance upserted since the call began, overwritten which ids
\* of the batch held another entry before.
UpsertStep ==
    \E p \in Procs, storageOk \in BOOLEAN :
        /\ calls[p].pc = "upsert"
        /\ LET c      == calls[p]
               raises == UpsertRaises(dimension, c.ids, c.embeddings, storageOk)
           IN  /\ collection' = IF raises THEN collection
                                 ELSE Upsert(collection, c.ids, c.documents, c.embeddings)
               /\ dimension' = IF raises THEN dimension ELSE Len(c.embeddings[1])
               /\ calls' = [q \in Procs |->
                               IF q = p THEN Idle
                               ELSE IF ~raises /\ calls[q].pc # "idle"
                               THEN [calls[q] EXCEPT !.overlapped = TRUE]
                               ELSE calls[q]]
               /\ last' = [op |-> "upsert", ids |-> c.ids,
                           documents |-> c.documents, embeddings |-> c.embeddings,
                           upserted |-> ~raises, overlapped |-> c.overlapped,
                           overwritten |->
                               {c.ids[i] : i \in {j \in DOMAIN c.ids :
                                   /\ c.ids[j] \in DOMAIN collection
                                   /\ collection[c.ids[j]] #
                                         [text |-> c.documents[j],
                                          embedding |-> c.embeddings[j]]}}]
        /\ UNCHANGED <<users, tickets, questions, shared_dir, limiter, desk, migrations>>

\* all_items = knowledge_base.get(ids=None): the first call of
\* clear_chroma_collection, called on the store the ingestion writes;
\* with no ids the function is done
ClearGet ==
    \E p \in Procs, storageOk \in BOOLEAN :
        /\ calls[p] = Idle
        /\ IF storageOk /\ DOMAIN collection # {}
           THEN /\ calls' = [calls EXCEPT ![p] =
                               [pc |-> "delete", all_ids |-> DOMAIN collection,
                                overlapped |-> FALSE]]
                /\ UNCHANGED last
           ELSE /\ last' = [op |-> "clear_steps", all_ids |-> {},
                            logged |-> IF storageOk THEN "already_empty"
                                       ELSE "clear_error",
                            overlapped |-> FALSE]
                /\ UNCHANGED calls
        /\ UNCHANGED <<collection, dimension, users, tickets, questions, shared_dir, limiter, desk, migrations>>

\* knowledge_base.delete(ids=all_ids): the second call
ClearDelete ==
    \E p \in Procs, storageOk \in BOOLEAN :
        /\ calls[p].pc = "delete"
        /\ collection' = IF storageOk THEN Delete(collection, calls[p].all_ids)
                         ELSE collection
        /\ last' = [op |-> "clear_steps", all_ids |-> calls[p].all_ids,
                    logged |-> IF storageOk THEN "deleted" ELSE "clear_error",
                    overlapped |-> calls[p].overlapped]
        /\ calls' = [calls EXCEPT ![p] = Idle]
        /\ UNCHANGED <<dimension, users, tickets, questions, shared_dir, limiter, desk, migrations>>

NextRace ==
    \/ BeginIngestion
    \/ UpsertStep
    \/ ClearGet
    \/ ClearDelete
    \/ SearchSimilarDocs

SpecRace == InitShared /\ [][NextRace]_vars

\* the users and subjects add_question is called with
TicketUsers == {"u1", "u2"}
Subjects == {"chat_question", "new_question"}

\* A call of add_question(user_id, question_text, subject) by any caller.
AddQuestion ==
    /\ Len(tickets) < MaxRows
    /\ \E user_id \in TicketUsers, subject \in Subjects, outcome \in AddOutcomes :
          \E r \in {add_question(users, tickets, questions, user_id, <<"a">>,
                                  subject, outcome)} :
              /\ users' = r.users
              /\ tickets' = r.tickets
              /\ questions' = r.questions
              /\ last' = [op |-> "add_question", user_id |-> user_id,
                          question_text |-> <<"a">>, subject |-> subject,
                          raised |-> r.raised, returned |-> r.returned]
    /\ UNCHANGED <<collection, dimension, calls, shared_dir, limiter, desk, migrations>>

\* The ticket storage alone.
NextTickets == AddQuestion

SpecTickets == InitShared /\ [][NextTickets]_vars

\* the contexts handed to generate_response_with_gpt: no document, or one
\* document with or without the key page_content
PromptContexts ==
    {<<>>} \cup {<<[page_content |-> t]>> : t \in PromptTexts}
           \cup {<<[text |-> t]>> : t \in {<<"<">>}}

\* A call of generate_response_with_gpt(token, folder_id, query_text,
\* context) up to chain.invoke: the input of the prompt.  The function keeps
\* no state between calls, so a behaviour makes one call.
BuildPrompt ==
    /\ last.op = "init"
    /\ \E query_text \in PromptTexts, context \in PromptContexts :
          last' = [op |-> "prompt", query_text |-> query_text,
                   context |-> context,
                   input_data |-> input_data(query_text, context)]
    /\ UNCHANGED <<collection, dimension, users, tickets, questions, calls, shared_dir, limiter, desk, migrations>>

\* The prompt construction alone, with every query and document text.
NextPrompt == BuildPrompt

SpecPrompt == InitShared /\ [][NextPrompt]_vars

\* A call of split_text_into_chunks(text, chunk_size, chunk_overlap) with
\* parameters of the caller's choice: it raises, or returns the chunks.
SplitTextIntoChunks ==
    \E text \in Texts, cs \in 1..MaxChunkSize, ov \in 0..MaxChunkSize :
        /\ last' = [op |-> "split", text |-> text,
                    chunk_size |-> cs, chunk_overlap |-> ov,
                    raised |-> SplitterRaises(cs, ov),
                    chunks |-> IF SplitterRaises(cs, ov) THEN <<>>
                               ELSE split_text_into_chunks(text, cs, ov)]
        /\ UNCHANGED <<collection, dimension, users, tickets, questions, calls, shared_dir, limiter, desk, migrations>>

\* The chunker alone, with every chunk_size and chunk_overlap.
NextChunker == SplitTextIntoChunks

SpecChunker == InitShared /\ [][NextChunker]_vars

----------------------------------------------------------------------------
(* Properties *)

Range(f) == {f[i] : i \in DOMAIN f}

\* a call of search_similar_docs was made by the request handled last
Searched == last.op \in {"search", "handle_mention"} /\ last.searched

\* what the index answered to that call: documents and their distances
ResultDocs ==
    IF Len(last.results.documents) = 0 THEN <<>> ELSE last.results.documents[1]
ResultDists ==
    IF Len(last.results.distances) = 0 THEN <<>> ELSE last.results.distances[1]

\* positions of the index results whose distance is within the threshold t
Within(t) == {i \in DOMAIN ResultDists : ResultDists[i] <= t}

\* no entry of the collection is within default_threshold of the query
NoRelevantDocument(query_text) ==
    \A id \in DOMAIN collection :
        Distance(Encode(DefaultModel, query_text), collection[id].embedding)
            > default_threshold

\* C1: Escalation exclusivity.  For every query handled by
\* search_similar_docs on behalf of handle_mention, exactly one of Answered
\* (a non-empty document list is returned) and Escalated (a ticket is
\* created) happens, add_question is called iff the query is Escalated, and
\* it is Escalated iff no document passed the threshold filter.
C1_EscalationExclusivity ==
    (last.op = "handle_mention" /\ last.searched) =>
        LET answered  == last.ret # <<>>
            escalated == last.ticket_created
        IN  /\ answered # escalated
            /\ (last.add_calls # <<>>) <=> escalated
            /\ escalated <=> (Within(last.threshold) = {})

\* C2: One ticket per unanswered query.  The whole query path (the chat
\* handler and the /llm_rag entrypoint) calls add_question exactly once,
\* with the original query text, when no document is relevant (the empty
\* index included), and makes no add_question call and no other write when
\* a document is relevant.  Relevance is that of the entries of the index,
\* so the queries the index failed to answer are left aside.
C2_OneTicketPerQuery ==
    (/\ \/ last.op = "query_llm_rag"
        \/ last.op = "handle_mention" /\ last.searched /\ ~last.query_raised
     /\ dimension \in {0, Len(Encode(DefaultModel, <<>>))}) =>
        IF NoRelevantDocument(last.query_text)
        THEN /\ Len(last.add_calls) = 1
             /\ last.add_calls[1].question_text = last.query_text
        ELSE /\ last.add_calls = <<>>
             /\ ~last.db_written

\* C3: Threshold filter with inclusive boundary.  search_similar_docs
\* returns an index result iff its distance is <= threshold; a result whose
\* distance equals the threshold is returned.
C3_ThresholdInclusive ==
    (last.op = "search" /\ ~last.query_raised) =>
        /\ \A i \in DOMAIN ResultDocs :
              ([text |-> ResultDocs[i]] \in Range(last.ret))
                  <=> (ResultDists[i] <= last.threshold)
        /\ Len(last.ret) = Cardinality(Within(last.threshold))

\* a result at distance exactly the threshold 2.0 was returned
C3_Witness ==
    /\ last.op = "search" /\ ~last.query_raised
    /\ last.threshold > default_threshold
    /\ \E i \in DOMAIN ResultDocs :
          /\ ResultDists[i] = last.threshold
          /\ [text |-> ResultDocs[i]] \in Range(last.ret)

\* C4: An empty collection, or one whose results all lie above the
\* threshold, is not an error: search_similar_docs returns the empty
\* sequence and raises nothing, whatever add_question does.
C4_EmptyIsNotAnError ==
    (/\ last.op = "handle_mention" /\ last.searched
     /\ ~last.query_raised
     /\ Within(last.threshold) = {}) =>
        /\ last.ret = <<>>
        /\ ~last.raised

\* the index answered with entries, every one of them above the threshold
C4_Witness ==
    /\ last.op = "handle_mention" /\ last.searched
    /\ ~last.query_raised
    /\ ResultDocs # <<>>
    /\ Within(last.threshold) = {}
    /\ last.ret = <<>>

\* C5: Threshold monotonicity.  For the same query, k and index answer, the
\* documents returned at a threshold are among those returned at every
\* larger threshold, and contain those returned at every smaller one.
C5_ThresholdMonotone ==
    (last.op = "search" /\ ~last.query_raised) =>
        \A t \in Thresholds :
            LET other == ProcessDocs(ResultDocs, ResultDists, t, 1)
            IN  /\ t >= last.threshold =>
                      Range(last.ret) \subseteq Range(other) /\ Len(last.ret) <= Len(other)
                /\ t <= last.threshold =>
                      Range(other) \subseteq Range(last.ret) /\ Len(other) <= Len(last.ret)

\* documents were returned, and a larger threshold returns more of them
C5_Witness ==
    /\ last.op = "search" /\ ~last.query_raised
    /\ last.ret # <<>>
    /\ \E t \in Thresholds :
          /\ t > last.threshold
          /\ Len(ProcessDocs(ResultDocs, ResultDists, t, 1)) > Len(last.ret)

\* C6: search_similar_docs returns at most k documents, and returns them in
\* the order of the index answer, which is by ascending distance.
C6_AtMostKInOrder ==
    (last.op = "search" /\ ~last.query_raised) =>
        /\ Len(last.ret) <= last.k
        /\ \A i, j \in DOMAIN ResultDists : i < j => ResultDists[i] <= ResultDists[j]
        /\ \E f \in [DOMAIN last.ret -> DOMAIN ResultDocs] :
              /\ \A i, j \in DOMAIN last.ret : i < j => f[i] < f[j]
              /\ \A i \in DOMAIN last.ret :
                    /\ last.ret[i].text = ResultDocs[f[i]]
                    /\ f[i] \in Within(last.threshold)

\* two different documents at different distances were returned
C6_Witness ==
    /\ last.op = "search" /\ ~last.query_raised
    /\ Len(last.ret) = 2
    /\ last.ret[1] # last.ret[2]
    /\ ResultDists[1] < ResultDists[2]

\* C7: Idempotent re-ingestion.  Ingesting the same text with the same
\* model and chunking parameters a second time leaves the collection as the
\* first ingestion left it: same ids, same text and vector per id.
C7_IdempotentReingestion ==
    [][(last'.op = "load_embeddings" /\ last'.again) =>
           (collection' = collection /\ dimension' = dimension)]_vars

\* a text of two chunks was ingested twice in a row
C7_Witness ==
    /\ last.op = "load_embeddings" /\ last.again
    /\ last.n_chunks = 2

\* C8: After a performed ingestion of n chunks, the ids written are
\* chunk_1 .. chunk_n in chunk order, and entry chunk_i holds the text of
\* the i-th chunk and the embedding of that same chunk.
C8_IdsTextsVectorsPaired ==
    (last.op = "load_embeddings" /\ last.upserted) =>
        LET chunks == split_text(last.text, chunk_size, chunk_overlap)
        IN  /\ last.ids = [i \in 1..Len(chunks) |-> i]
            /\ \A i \in 1..Len(chunks) :
                  /\ i \in DOMAIN collection
                  /\ collection[i] =
                        [text |-> chunks[i],
                         embedding |-> Encode(last.model_name, chunks[i])]

\* two chunks with different texts and different embeddings were ingested
C8_Witness ==
    /\ last.op = "load_embeddings" /\ last.upserted
    /\ last.n_chunks = 2
    /\ collection[1].text # collection[2].text
    /\ collection[1].embedding # collection[2].embedding

\* C9: When embedding generation raises or an embedding is invalid,
\* add_documents_to_chroma performs no upsert: the collection is exactly as
\* it was before the call.
C9_EmbeddingFailureAborts ==
    [][(/\ last'.op = "load_embeddings"
        /\ last'.logged \in {"embedding_error", "invalid_embeddings"}) =>
           (collection' = collection /\ dimension' = dimension)]_vars

\* a batch of two chunks, one embedding invalid, over a non-empty collection
C9_Witness ==
    /\ last.op = "load_embeddings"
    /\ last.logged = "invalid_embeddings"
    /\ last.n_chunks = 2
    /\ collection # EmptyCollection

\* C10: The /embeddings entrypoint reports a failure whenever embedding
\* generation or the upsert failed, and reports success only when the
\* entries of the batch were upserted.
C10_FailureReported ==
    last.op = "load_embeddings" =>
        (last.status = 200 <=> last.upserted)

\* C11: Dimension mismatch.  An upsert whose vectors have not the dimension
\* the collection was established with fails as a whole: nothing of the
\* batch is written, and every entry that existed before the call is still
\* there with the same text and the same vector.
C11_DimensionMismatchFailsWhole ==
    [][(/\ last'.op = "load_embeddings"
        /\ last'.logged \in {"upsert_error", "added"}
        /\ last'.n_chunks > 0
        /\ dimension # 0
        /\ Len(Encode(last'.model_name, <<>>)) # dimension) =>
           (/\ last'.logged = "upsert_error"
            /\ collection' = collection
            /\ dimension' = dimension)]_vars

\* two chunks of another dimension were upserted into a collection of two
\* entries while the storage was available, and the upsert failed
C11_Witness ==
    /\ last.op = "load_embeddings"
    /\ last.logged = "upsert_error"
    /\ last.storage_ok
    /\ last.n_chunks = 2
    /\ dimension # 0
    /\ Len(Encode(last.model_name, <<>>)) # dimension
    /\ Cardinality(DOMAIN collection) >= 2

\* C12: On generation failure (chain.invoke raises, or answers None) the
\* answer synthesizer returns the fixed fallback string; no error leaves
\* generate_response_with_gpt and none is shown to the user.
C12_GenerationFailureFallsBack ==
    (last.op = "handle_mention" /\ last.generation \in {"none", "raise"}) =>
        /\ ~generate_response_with_gpt(last.generation).raised
        /\ last.reply = "fallback"

\* C13: If add_question fails during escalation, the failure reaches the
\* caller of search_similar_docs as an error; it is not returned as an
\* ordinary empty result.  (An exception caught by the except clause after
\* add_question was called is an exception of add_question.)
C13_TicketFailureSurfaced ==
    (/\ last.op = "handle_mention"
     /\ last.add_calls # <<>>
     /\ last.error_logged) =>
        /\ last.raised
        /\ last.reply = "error"

\* C14: If knowledge_base.query fails (embedding of the query included),
\* the failure reaches the caller as an error; it is not reported as "no
\* documents found" and the user is not told that a ticket was registered.
C14_QueryFailureSurfaced ==
    (last.op = "handle_mention" /\ last.query_raised) =>
        /\ last.raised
        /\ last.reply = "error"
        /\ last.reply # "ticket_registered"

\* C15: Every request to /llm_rag ends in one of two results: an answer
\* generated from the relevant documents (status 200) when there is one,
\* or a created ticket that is reported (status 404) when there is none.
C15_LlmRagAnswersOrEscalates ==
    last.op = "query_llm_rag" =>
        IF NoRelevantDocument(last.query_text)
        THEN last.status = 404 /\ last.ticket_created
        ELSE last.status = 200 /\ ~last.ticket_created

\* C16: clear_chroma_collection removes all entries: after a clearing that
\* met no storage error the collection is empty.  It is idempotent: on an
\* empty collection it succeeds without deleting and leaves it empty, and
\* a second clearing changes nothing of what the first one left.
C16_ClearEmptiesAndIsIdempotent ==
    [][(last'.op = "clear" /\ last'.logged \in {"deleted", "already_empty"}) =>
           LET again == clear_chroma_collection(AdminCollection', "ok")
           IN  /\ AdminCollection' = EmptyCollection
               /\ dimension' = dimension
               /\ (AdminCollection = EmptyCollection) <=> (last'.logged = "already_empty")
               /\ again.coll = AdminCollection'
               /\ again.logged = "already_empty"]_vars

\* a collection that was filled and cleared is cleared once more
C16_Witness ==
    /\ last.op = "clear"
    /\ last.logged = "already_empty"
    /\ shared_dir
    /\ dimension # 0
    /\ collection = EmptyCollection

\* C17: The index never mixes vectors of different embedding models: in
\* every reachable state every entry of the collection holds the vector
\* that the model embedding the queries (the embedding function of the
\* collection, DefaultModel) gives for the text of the entry.
C17_OneEmbeddingModel ==
    \A id \in DOMAIN collection :
        collection[id].embedding = Encode(DefaultModel, collection[id].text)

\* C18: The chunker rejects invalid parameters: for every call with
\* chunk_overlap >= chunk_size, equality included, split_text_into_chunks
\* raises and produces no chunks.
C18_ChunkerRejectsOverlap ==
    (last.op = "split" /\ last.chunk_overlap >= last.chunk_size) =>
        /\ last.raised
        /\ last.chunks = <<>>

\* the entries an ingestion of one of the texts writes under the id
WrittenEntries(id) ==
    {[text |-> split_text(text, chunk_size, chunk_overlap)[id],
      embedding |-> Encode(DefaultModel, split_text(text, chunk_size, chunk_overlap)[id])] :
        text \in {t \in RaceTexts : id <= Len(split_text(t, chunk_size, chunk_overlap))}}

\* C19: Last writer wins.  When ingestion calls of several instances upsert
\* the same chunk id, in any interleaving, each performed upsert leaves
\* under every id of its batch the text and the vector of its own call,
\* and leaves every other entry as it was: the entry finally stored is the
\* complete pair of the call that upserted last.
C19_LastWriterWins ==
    [][\A p \in Procs :
          (calls[p].pc = "upsert" /\ calls'[p].pc = "idle" /\ last'.upserted) =>
              /\ \A i \in DOMAIN calls[p].ids :
                    /\ calls[p].ids[i] \in DOMAIN collection'
                    /\ collection'[calls[p].ids[i]] =
                          [text |-> calls[p].documents[i],
                           embedding |-> calls[p].embeddings[i]]
              /\ \A id \in DOMAIN collection :
                    (\A i \in DOMAIN calls[p].ids : calls[p].ids[i] # id) =>
                        id \in DOMAIN collection' /\ collection'[id] = collection[id]
              /\ \A id \in DOMAIN collection' :
                    collection'[id] \in WrittenEntries(id)]_vars

\* a call that began before the upsert of another instance has upserted
\* after it and replaced an entry holding another text
C19_Witness ==
    /\ last.op = "upsert"
    /\ last.upserted
    /\ last.overlapped
    /\ last.overwritten # {}

\* C20: A clearing racing with upserts and queries does not corrupt the
\* store.  For every interleaving of the two steps of
\* clear_chroma_collection with upserts and queries, every entry of the
\* collection is the complete pair of text and vector some upsert wrote
\* under its id, and every document a query is answered with comes with
\* the distance of its own vector.
C20_ClearRaceKeepsEntriesComplete ==
    /\ \A id \in DOMAIN collection : collection[id] \in WrittenEntries(id)
    /\ (last.op = "search" /\ ~last.query_raised) =>
          \A i \in DOMAIN ResultDocs :
              \E id \in DOMAIN collection :
                  /\ collection[id].text = ResultDocs[i]
                  /\ ResultDists[i] = Distance(Encode(DefaultModel, last.query_text),
                                               collection[id].embedding)

\* an upsert came between the reading of the ids and their deletion, and an
\* entry it wrote is in the collection after the deletion
C20_Witness ==
    /\ last.op = "clear_steps"
    /\ last.logged = "deleted"
    /\ last.overlapped
    /\ collection # EmptyCollection

\* the five character references html.escape produces
Entities ==
    {<<"&", "a", "m", "p", ";">>, <<"&", "l", "t", ";">>, <<"&", "g", "t", ";">>,
     <<"&", "q", "u", "o", "t", ";">>, <<"&", "#", "x", "2", "7", ";">>}

\* the character a character reference stands for
EntityChar(e) ==
    IF e = <<"&", "a", "m", "p", ";">> THEN "&"
    ELSE IF e = <<"&", "l", "t", ";">> THEN "<"
    ELSE IF e = <<"&", "g", "t", ";">> THEN ">"
    ELSE IF e = <<"&", "q", "u", "o", "t", ";">> THEN "\"" ELSE "'"

\* the character reference the text begins with, if any
EntityAt(text) ==
    {e \in Entities : Len(e) <= Len(text) /\ SubSeq(text, 1, Len(e)) = e}

\* no markup character is left in the text: neither <, > nor a quote, and
\* every & begins a character reference
RECURSIVE NoMarkup(_)
NoMarkup(text) ==
    IF text = <<>> THEN TRUE
    ELSE IF Head(text) \in {"<", ">", "\"", "'"} THEN FALSE
    ELSE IF Head(text) = "&"
         THEN /\ EntityAt(text) # {}
              /\ NoMarkup(SubSeq(text, Len(CHOOSE e \in EntityAt(text) : TRUE) + 1,
                                 Len(text)))
         ELSE NoMarkup(Tail(text))

\* the text a rendering layer shows for an escaped text
RECURSIVE Rendered(_)
Rendered(text) ==
    IF text = <<>> THEN <<>>
    ELSE IF EntityAt(text) # {}
         THEN LET e == CHOOSE x \in EntityAt(text) : TRUE
              IN  <<EntityChar(e)>> \o Rendered(SubSeq(text, Len(e) + 1, Len(text)))
         ELSE <<Head(text)>> \o Rendered(Tail(text))

\* C21: generate_response_with_gpt escapes the markup characters <, >, &
\* and the quotes in every document text and in the query before they are
\* placed in the prompt: the prompt input holds no markup character that
\* came from a document or from the query, and renders as the original
\* text.
C21_PromptInputEscaped ==
    last.op = "prompt" =>
        /\ NoMarkup(last.input_data.query)
        /\ Rendered(last.input_data.query) = last.query_text
        /\ \A i \in DOMAIN last.input_data.context :
              /\ NoMarkup(last.input_data.context[i])
              /\ Rendered(last.input_data.context[i]) = last.context[i].page_content

\* a query with a tag bracket and a document with a quote were escaped
C21_Witness ==
    /\ last.op = "prompt"
    /\ \E i \in DOMAIN last.query_text : last.query_text[i] = "<"
    /\ Len(last.context) = 1
    /\ "page_content" \in DOMAIN last.context[1]
    /\ \E i \in DOMAIN last.context[1].page_content :
          last.context[1].page_content[i] = "\""
    /\ Len(last.input_data.context) = 1

\* C22: A successful add_question(user_id, question_text, subject) creates
\* exactly one new Ticket owned by user_id and exactly one Question with
\* that text and subject linked to the new ticket, creates the User row
\* when there is none, and returns that Question; the rows stored before
\* are left as they were, and the question is never attached to a ticket
\* that existed before.
C22_OneTicketOneQuestion ==
    [][(last'.op = "add_question" /\ ~last'.raised) =>
           LET n == Len(tickets)
               t == tickets'[n + 1]
               q == questions'[Len(questions) + 1]
           IN  /\ Len(tickets') = n + 1
               /\ SubSeq(tickets', 1, n) = tickets
               /\ t.telegram_id = last'.user_id
               /\ \A i \in 1..n : tickets[i].ticket_id # t.ticket_id
               /\ Len(questions') = Len(questions) + 1
               /\ SubSeq(questions', 1, Len(questions)) = questions
               /\ q = [ticket_id |-> t.ticket_id, telegram_id |-> last'.user_id,
                       text |-> last'.question_text, subject |-> last'.subject]
               /\ users' = users \cup {last'.user_id}
               /\ last'.returned = <<q>>]_vars

\* a user who has a ticket asked again and got a second ticket
C22_Witness ==
    /\ last.op = "add_question" /\ ~last.raised
    /\ Len(tickets) = 2
    /\ tickets[1].telegram_id = tickets[2].telegram_id
    /\ tickets[1].ticket_id # tickets[2].ticket_id
    /\ Len(questions) = 2
    /\ questions[2].ticket_id = tickets[2].ticket_id

\* C23: Whenever handle_mention replies that no relevant documents were
\* found and the question was registered as a new ticket, exactly one
\* ticket with that question was created while the message was handled,
\* also when the index query or add_question raised.
C23_RegisteredReplyMeansTicket ==
    (last.op = "handle_mention" /\ last.reply = "ticket_registered") =>
        /\ last.ticket_created
        /\ Len(last.add_calls) = 1
        /\ Len(questions) > 0
        /\ questions[Len(questions)].text = last.query_text
        /\ questions[Len(questions)].ticket_id = tickets[Len(tickets)].ticket_id

\* C24: Ingestion never removes entries, and the ids are shared by all
\* documents.  A performed ingestion of n chunks leaves the ids
\* chunk_1 .. chunk_M with M the larger of n and the number of entries
\* before, writes the texts of its chunks under chunk_1 .. chunk_n, and
\* leaves the entries above chunk_n as they were; so after any sequence of
\* performed ingestions chunk_i holds the text of the most recent one that
\* produced at least i chunks.
C24_IngestionOverwritesById ==
    [][(last'.op = "load_embeddings" /\ last'.upserted) =>
           LET chunks == split_text(last'.text, chunk_size, chunk_overlap)
               n == Len(chunks)
               m == Cardinality(DOMAIN collection)
           IN  /\ DOMAIN collection = 1..m
               /\ DOMAIN collection' = 1..(IF n > m THEN n ELSE m)
               /\ \A i \in 1..n : collection'[i].text = chunks[i]
               /\ \A i \in (n + 1)..m : collection'[i] = collection[i]]_vars

\* a document of one chunk was ingested after a document of two chunks:
\* chunk_2 of the earlier document is still there
C24_Witness ==
    /\ last.op = "load_embeddings" /\ last.upserted
    /\ last.n_chunks = 1
    /\ DOMAIN collection = {1, 2}
    /\ collection[1].text = last.text
    /\ collection[1].text # <<collection[2].text[1]>>

\* C26: Each document returned by search_similar_docs carries the text of
\* the index entry and the distance with which the index returned it.
C26_ReturnedDocumentHasDistance ==
    (last.op = "search" /\ ~last.query_raised) =>
        \A i \in DOMAIN last.ret :
            /\ DOMAIN last.ret[i] = {"text", "distance"}
            /\ \E j \in DOMAIN ResultDocs :
                  /\ last.ret[i].text = ResultDocs[j]
                  /\ last.ret[i].distance = ResultDists[j]

\* C25: The collection-management entrypoints act on the collection of
\* ingestion and search: a mention searched right after the clear command
\* reported success, with no ingestion in between, gets no document from
\* the index and none above the threshold filter, and the listing of the
\* show command holds exactly the documents of the entries in the
\* collection of ingestion and search.
C25_AdminActsOnSearchedCollection ==
    [][/\ (last.op = "clear" /\ last.reply = "cleared"
           /\ last'.op = "handle_mention" /\ last'.searched) =>
              /\ last'.ret = <<>>
              /\ \A i \in DOMAIN last'.results.documents :
                     last'.results.documents[i] = <<>>
       /\ (last'.op = "show" /\ last'.reply = "listing") =>
              Range(last'.documents) =
                  {collection[id].text : id \in DOMAIN collection}]_vars

\* a step of handle_group_message: the clock stands still and the record
\* of the request is the handler's
GroupMessageHandled ==
    /\ now' = now
    /\ last'.op = "handle_group_message"

\* C27: Queries share no mutable in-process state: handling a group message
\* leaves the module variables chat_mentions and chat_timeout as they were,
\* and whether a mention is passed to handle_mention does not depend on
\* what the handling of earlier messages left in them, so every message
\* that names the bot is passed.
C27_NoSharedInProcessState ==
    [][GroupMessageHandled =>
          /\ chat_mentions' = chat_mentions
          /\ chat_timeout' = chat_timeout
          /\ (last'.kind \in MentionKinds => last'.passed)]_vars

\* the mentions of the chat recorded less than 60 seconds before now
RecordedInWindow(chat) ==
    {i \in DOMAIN chat_mentions[chat] : now - chat_mentions[chat][i] < mention_window}

\* C28: Mention rate limit.  In every chat at most 3 of the mentions passed
\* to handle_mention lie within less than 60 seconds.  A mention handled
\* outside a timeout is passed iff fewer than 3 mentions of its chat are
\* recorded in the preceding 60 seconds; otherwise it is answered with the
\* rate-limit notice only and chat_timeout of its chat becomes its arrival
\* time plus 300 seconds.  The recorded mentions and the timeout of every
\* other chat stay as they were.
C28_MentionRateLimit ==
    [][(/\ GroupMessageHandled
        /\ last'.kind \in MentionKinds
        /\ ~(last'.chat \in DOMAIN chat_timeout /\ now < chat_timeout[last'.chat])) =>
          LET chat == last'.chat
          IN  /\ last'.passed <=> Cardinality(RecordedInWindow(chat)) < mention_limit
              /\ ~last'.passed =>
                    /\ last'.reply = "rate_limited"
                    /\ chat \in DOMAIN chat_timeout'
                    /\ chat_timeout'[chat] = now + timeout_duration
                    /\ <<users, tickets, questions>>' = <<users, tickets, questions>>
              /\ \A c \in Chats : Len(passed_at'[c]) <= mention_limit
              /\ \A c \in Chats \ {chat} :
                    /\ chat_mentions'[c] = chat_mentions[c]
                    /\ (c \in DOMAIN chat_timeout') <=> (c \in DOMAIN chat_timeout)
                    /\ c \in DOMAIN chat_timeout => chat_timeout'[c] = chat_timeout[c]]_vars

\* a fourth mention within 60 seconds is refused in one chat while mentions
\* of the other chat are recorded and that chat is not in timeout
C28_Witness ==
    /\ last.op = "handle_group_message"
    /\ last.reply = "rate_limited"
    /\ Len(passed_at[last.chat]) = mention_limit
    /\ \E c \in Chats \ {last.chat} :
          /\ chat_mentions[c] # <<>>
          /\ c \notin DOMAIN chat_timeout

\* C29: While a chat is in timeout handle_group_message does nothing for a
\* message of the chat, whatever the message is: no reply is sent, nothing
\* is passed to handle_mention, the tables of users, tickets and questions
\* and the index are left alone, and chat_mentions and chat_timeout stay
\* as they were.
C29_SilentDuringTimeout ==
    [][(/\ GroupMessageHandled
        /\ last'.chat \in DOMAIN chat_timeout
        /\ now < chat_timeout[last'.chat]) =>
          /\ last'.reply = "none"
          /\ ~last'.passed
          /\ chat_mentions' = chat_mentions
          /\ chat_timeout' = chat_timeout
          /\ <<users, tickets, questions>>' = <<users, tickets, questions>>
          /\ <<collection, dimension>>' = <<collection, dimension>>]_vars

\* a mention arrives in the last unit of time of a timeout
C29_Witness ==
    /\ last.op = "handle_group_message"
    /\ last.kind \in MentionKinds
    /\ last.in_timeout
    /\ now + 1 = chat_timeout[last.chat]

\* C30: The limiter never stays locked.  When the timeout of a chat has
\* expired and no mention of the chat was recorded since the one that set
\* it, the next mention in the chat is passed to handle_mention, and what
\* is recorded for the chat afterwards is that mention alone.
C30_TimeoutExpires ==
    [][(/\ GroupMessageHandled
        /\ last'.kind \in MentionKinds
        /\ last'.chat \in DOMAIN chat_timeout
        /\ now >= chat_timeout[last'.chat]
        /\ chat_mentions[last'.chat] # <<>>
        /\ chat_mentions[last'.chat][Len(chat_mentions[last'.chat])]
               + timeout_duration = chat_timeout[last'.chat]) =>
          /\ last'.passed
          /\ chat_mentions'[last'.chat] = <<now>>]_vars

\* the first mention after a timeout has been passed
C30_Witness ==
    /\ last.op = "handle_group_message"
    /\ last.passed
    /\ last.chat \in DOMAIN chat_timeout
    /\ now >= chat_timeout[last.chat]
    /\ chat_mentions[last.chat] = <<now>>

\* C31: Command filter in group chats.  A message whose text contains "/"
\* is never passed to process_mention, and so not to search_similar_docs or
\* add_question, also when it names the bot: no mention is recorded, no
\* timeout is set, the tables of users, tickets and questions are left
\* alone, and the only reply the handler sends is that commands are
\* forbidden (it sends none while the chat is in timeout).
C31_CommandFilter ==
    [][(GroupMessageHandled /\ last'.kind \in {"command", "command_mention"}) =>
          /\ ~last'.passed
          /\ chat_mentions' = chat_mentions
          /\ chat_timeout' = chat_timeout
          /\ passed_at' = passed_at
          /\ <<users, tickets, questions>>' = <<users, tickets, questions>>
          /\ last'.reply = IF last'.chat \in DOMAIN chat_timeout
                               /\ now < chat_timeout[last'.chat]
                            THEN "none" ELSE "command_forbidden"]_vars

\* a text with "/" that names the bot was answered with the notice, in a
\* chat where mentions are recorded
C31_Witness ==
    /\ last.op = "handle_group_message"
    /\ last.kind = "command_mention"
    /\ last.reply = "command_forbidden"
    /\ chat_mentions[last.chat] # <<>>

C37_TicketHasQuestion ==
    \A i \in DOMAIN tickets :
        \E j \in DOMAIN questions :
            questions[j].ticket_id = tickets[i].ticket_id

\* C39: apply_migrations executes only migration files that are not
\* recorded in the table migrations, in ascending order of their names;
\* after every run, failed ones included, the SQL of a migration is
\* committed iff its name is recorded; and no run executes a migration
\* whose SQL was committed by an earlier run.
C39_MigrationsAppliedOnce ==
    /\ migrations.committed = migrations.recorded
    /\ last.op = "apply_migrations" =>
          /\ \A i \in DOMAIN last.executed :
                /\ last.executed[i] \notin last.recorded_before
                /\ last.executed[i] \notin last.committed_before
          /\ \A i, j \in DOMAIN last.executed :
                i < j => last.executed[i] < last.executed[j]

\* an update was handled in this step
UpdateHandled == last'.op = "update" /\ (last' # last \/ fsm' # fsm \/ answers' # answers)

\* C33: a session is in an AdminStates state only if its user is in
\* ADMIN_IDS, its chat is private and it was entered through /start; a
\* session enters the AdminStates states only through start_handler; and
\* the handlers behind an AdminStates filter run only for the private
\* session of an admin.
C33_AdminAuthorization ==
    [][/\ \A s \in Sessions :
            /\ fsm'[s].state \in AdminStates
                  => s.user \in ADMIN_IDS /\ s.chat = "private" /\ fsm'[s].by_start
            /\ fsm[s].state \notin AdminStates /\ fsm'[s].state \in AdminStates
                  => last'.handler = "start_handler" /\ last'.session = s
       /\ last'.op = "update" /\ last'.handler \in AdminHandlers
            => last'.session.user \in ADMIN_IDS /\ last'.session.chat = "private"]_vars

\* an admin answered a ticket, and a user who is not an admin sent /start
\* in a private chat afterwards
C33_Witness ==
    /\ answers # <<>>
    /\ last.op = "update"
    /\ last.handler = "start_handler"
    /\ last.session = UserSession
    /\ fsm[UserSession].state = NoState
    /\ fsm[AdminSession].state \in AdminStates

\* C34: from sessions without a state, no session is ever in a UserStates
\* state.
C34_UserStatesUnreachable ==
    \A s \in Sessions : fsm[s].state \notin UserStates

\* the user who is not an admin pressed a button of the user handlers in a
\* private chat, with a ticket of theirs in the database, and no handler
\* took it
C34_Witness ==
    /\ last.op = "update"
    /\ last.session = UserSession
    /\ last.handler = "unhandled"
    /\ tickets # <<>>
    /\ fsm[UserSession].state = NoState

\* C35: in every AdminStates state, a /start message of an admin in a
\* private chat is taken by start_handler and leaves the session in
\* AUTHENTICATED_ADMIN.
C35_StartLeavesEveryAdminState ==
    [][\A s \in Sessions :
          (/\ fsm[s].state \in AdminStates
           /\ s.user \in ADMIN_IDS
           /\ s.chat = "private"
           /\ UpdateHandled
           /\ last'.session = s
           /\ last'.start)
          => /\ last'.handler = "start_handler"
             /\ fsm'[s].state = "AdminStates:AUTHENTICATED_ADMIN"]_vars

\* /start was handled while the admin was waiting for the text of an answer
C35_Witness ==
    /\ last.op = "update"
    /\ last.handler = "start_handler"
    /\ last.session = AdminSession
    /\ last.state_before = "AdminStates:WAITING_FOR_RESPONSE"
    /\ fsm[AdminSession].state = "AdminStates:AUTHENTICATED_ADMIN"

\* C36: receive_answer runs only in WAITING_FOR_RESPONSE, which is entered
\* only from VIEW_TICKET through answer_ticket; the answer it stores
\* belongs to the ticket_id the session saved when a ticket was viewed;
\* after it the session is in AUTHENTICATED_ADMIN, or still in
\* WAITING_FOR_RESPONSE when the message has no text or carries a photo.
C36_AnswerOrdering ==
    [][/\ \A s \in Sessions :
            fsm[s].state # "AdminStates:WAITING_FOR_RESPONSE"
              /\ fsm'[s].state = "AdminStates:WAITING_FOR_RESPONSE"
            => /\ last'.handler = "answer_ticket"
               /\ fsm[s].state = "AdminStates:VIEW_TICKET"
       /\ UpdateHandled /\ last'.handler = "receive_answer"
            => /\ last'.state_before = "AdminStates:WAITING_FOR_RESPONSE"
               /\ answers' # answers
                    => answers'[Len(answers')].ticket_id = fsm[last'.session].ticket_id
               /\ \/ fsm'[last'.session].state = "AdminStates:AUTHENTICATED_ADMIN"
                  \/ /\ fsm'[last'.session].state = "AdminStates:WAITING_FOR_RESPONSE"
                     /\ ~last'.text \/ last'.photo]_vars

====
